---------------------------- MODULE Spec2Model ----------------------------
(***************************************************************************)
(* Model of the timeframe carvers (detec_carve.py, milestone_carve.py,     *)
(* avigilon_carve.py, mirasys_carve.py): the scan loop searchChunksOfData, *)
(* the scanner (carveInImage / searchBytes / regexFindInBytes), the header *)
(* and index parsers, and the OutputWriter that stitches verified frames   *)
(* into extents and writes them as files.                                  *)
(*                                                                         *)
(* An image is described by what the carvers can read from it: its size,   *)
(* the offsets at which a scan pattern occurs, and the header fields found *)
(* at those offsets.  Offsets, sizes and the carvers' constants keep the   *)
(* values of the source.                                                   *)
(***************************************************************************)
EXTENDS Integers, Sequences, FiniteSets, TLC

VARIABLES
    carver,             \* which script runs: "detec", "milestone", "avigilon", "mirasys"
    image,              \* the content of the image file (filehandle), never written
    carve_len,          \* len(carve_string): length of the pattern's source bytes
    resume_offset,      \* args.resume of the first run (0 when absent)
    run,                \* 1: first run, 2: run resumed from the checkpoint
    pc,                 \* "scan", "done", "crashed", "killed"
    raised,             \* the call that raised the exception that ended the run
    offset,             \* the scan cursor
    file_start,         \* OutputWriter.file_start / current_blk_start_offset / current_file_start
    file_end,           \* OutputWriter.file_end / current_blk_end_offset / current_file_end
    frame_count,        \* OutputWriter.frame_count / current_blk_count / current_file_count
    from_date,          \* OutputWriter.from_date / current_blk_start_date / current_file_start_date
    to_date,            \* OutputWriter.to_date / current_blk_end_date / current_file_end_date
    written,            \* the output files written so far, in order of writing
    log,                \* content of currentOffset.log: the values it holds
    log_offset_counter, \* iterations since the last checkpoint write
    verified,           \* history: offsets of the frames verified and counted in this run
    folded,             \* history: frames counted since frame_count was last reset
    last_cursor,        \* history: the cursor the last completed iteration started at, -1: none
    cadence,            \* history: since: iterations since the last checkpoint write,
                        \* gap: iterations from the write before it to the last one (-1: none)
    index_hit,          \* history: the last index the scan was sent to: the hit, the
                        \* locals of the branch that parsed it, the offsets of the
                        \* frames it counted
    call,               \* a scanner or a timestamp decoder called on its own: the
                        \* function and its arguments (fn = "none" during a scan)
    returned            \* what that call returned or raised, once it has been made

vars == <<carver, image, carve_len, resume_offset, run, pc, offset, file_start,
          file_end, frame_count, from_date, to_date, written, log,
          log_offset_counter, verified, folded, raised, last_cursor,
          cadence, index_hit, call, returned>>

-----------------------------------------------------------------------------
(* Bounds of the model *)

\* at most this many frame headers in an image of a direct-frame carver
MaxFrames == 3

-----------------------------------------------------------------------------
(* Small helpers *)

Min(S) == CHOOSE x \in S : \A y \in S : x <= y

Max(S) == CHOOSE x \in S : \A y \in S : x >= y

MinOf(a, b) == IF a <= b THEN a ELSE b

MaxOf(a, b) == IF a >= b THEN a ELSE b

Last(q) == q[Len(q)]

RECURSIVE SortedSeq(_)
SortedSeq(S) ==
    IF S = {} THEN <<>>
    ELSE LET m == Min(S) IN <<m>> \o SortedSeq(S \ {m})

SeqToSet(q) == {q[i] : i \in 1..Len(q)}

-----------------------------------------------------------------------------
(* Dates as the carvers hold them: a formatted string, None, "" or "null" *)

NoneDate == [kind |-> "None", ymd |-> 0, hms |-> 0]

EmptyStr == [kind |-> "empty", ymd |-> 0, hms |-> 0]

NullStr == [kind |-> "null", ymd |-> 0, hms |-> 0]

\* seconds of the day as the digits HHMMSS
HHMMSS(sod) == (sod \div 3600) * 10000 + ((sod % 3600) \div 60) * 100 + (sod % 60)

\* string[11:17]: the HHMMSS part of a formatted date; empty for a shorter string
Slice11to17(d) ==
    IF d.kind = "date" THEN [kind |-> "time", ymd |-> 0, hms |-> d.hms]
    ELSE EmptyStr

\* Python truth value of a date variable: None and "" are false
Truthy(d) == d.kind \notin {"None", "empty"}


-----------------------------------------------------------------------------
(* Raw timestamps.  A 64-bit field value v is held in mixed radix as        *)
(* [d, s, f] with v = (d * 86400 + s) * unit + f, 0 <= s < 86400 and        *)
(* 0 <= f < unit, where unit is the number of field units in a second.      *)

\* EPOCH_AS_TICKS_TIME = 621355968000000000 = 719162 days of 100 ns units
EPOCH_AS_TICKS_TIME_DAYS == 719162

\* datetime.utcfromtimestamp accepts the years 1 to 9999 only
MIN_DATETIME_DAY == -719162

MAX_DATETIME_DAY == 2932896

\* divmod(value - epoch, HUNDREDS_OF_NS) and utcfromtimestamp(s): the instant in
\* days and seconds of the day since 1970, or an error outside datetime's range
DecodeSinceEpoch(raw, epoch_days) ==
    LET day == raw.d - epoch_days
    IN  IF day < MIN_DATETIME_DAY \/ day > MAX_DATETIME_DAY
        THEN [ok |-> FALSE, day |-> 0, sod |-> 0, micro |-> 0]
        ELSE [ok |-> TRUE, day |-> day, sod |-> raw.s, micro |-> raw.f \div 10]

\* strftime(value, '%Y-%m-%d_%H%M%S') of a decoded instant: the day (standing for
\* the digits YYYY-MM-DD) and the digits HHMMSS
getDateTimeString(dt) == [kind |-> "date", ymd |-> dt.day, hms |-> HHMMSS(dt.sod)]

-----------------------------------------------------------------------------
(* The image file *)

\* bytes returned by filehandle.seek(off); filehandle.read(size)
ReadLen(img, off, size) ==
    IF off >= img.total \/ size <= 0 THEN 0 ELSE MinOf(size, img.total - off)

\* the header fields found at offset p (p is an offset where the frame pattern occurs)
HeaderAt(img, p) == CHOOSE f \in img.frames : f.pos = p

\* re.finditer: the matches found scanning left to right, none overlapping an
\* earlier one.  S: the offsets where the pattern occurs, mlen: bytes of a match
RECURSIVE Finditer(_, _)
Finditer(S, mlen) ==
    IF S = {} THEN <<>>
    ELSE LET m == Min(S)
         IN  <<m>> \o Finditer({x \in S : x >= m + mlen}, mlen)

\* the offsets, relative to off, of the matches in the size bytes read at off
MatchesIn(img, off, size, mlen) ==
    LET stop == off + ReadLen(img, off, size)
        occ  == {f.pos - off : f \in {g \in img.frames :
                                        g.pos >= off /\ g.pos + mlen <= stop}}
    IN  Finditer(occ, mlen)

-----------------------------------------------------------------------------
(* The state of a run as one record, so that a loop iteration is a function *)

State ==
    [run |-> run, pc |-> pc, offset |-> offset, file_start |-> file_start,
     file_end |-> file_end, frame_count |-> frame_count, from_date |-> from_date,
     to_date |-> to_date, written |-> written, log |-> log,
     log_offset_counter |-> log_offset_counter, verified |-> verified,
     folded |-> folded, raised |-> raised, last_cursor |-> last_cursor,
     cadence |-> cadence, index_hit |-> index_hit]

\* an uncaught exception raised by the call where: the process ends
Raise(s, where) == [s EXCEPT !.pc = "crashed", !.raised = where]

\* an output file: the fields of its name, the bytes written to it, and (history)
\* the frames that were counted into frame_count when it was written
OutFile(img, s, from, to) ==
    [from |-> from, to |-> to, count |-> s.frame_count,
     start |-> s.file_start, end |-> s.file_end,
     len |-> ReadLen(img, s.file_start, s.file_end - s.file_start),
     frames |-> s.folded, run |-> s.run]

\* history: the frame at pos, carrying date, has been verified and counted
NoteFrame(s, pos, date) ==
    [s EXCEPT !.verified = @ \cup {pos},
              !.folded = Append(@, [pos |-> pos, date |-> date])]

\* log_offset_to_file, the same in the four scripts
log_offset_to_file == 200000

\* a write that appends to the checkpoint file: the fault that C16 excludes
WriteCheckpoint_Append(s) ==
    [s EXCEPT !.log = Append(@, s.offset),
              !.cadence = [since |-> 0,
                           gap |-> IF @.since >= 0 THEN @.since + 1 ELSE @.gap]]

\* the checkpoint file is opened with 'w' and str(offset) is written: the file
\* holds this one value
WriteCheckpoint(s) ==
    [s EXCEPT !.log = <<s.offset>>,
              !.cadence = [since |-> 0,
                           gap |-> IF @.since >= 0 THEN @.since + 1 ELSE @.gap]]

\* an iteration that does not write the checkpoint
NoCheckpoint(s) == [s EXCEPT !.cadence.since = IF @ >= 0 THEN @ + 1 ELSE @]

-----------------------------------------------------------------------------
(* detec_carve.py *)

detec_haystack_length == 1024

\* len(frame_signature): the four bytes FF FF FF FF
detec_frame_signature_length == 4

detec_frame_signature_offset == 8

detec_frame_header_length == 28

detec_frame_header_size == 24

detec_frame_footer_length == 20

\* bytes matched by frame_carve_string: the 8 date bytes, then the signature
Detec_MatchLen == detec_frame_signature_offset + detec_frame_signature_length

\* OutputWriter.__init__
Detec_InitWriter(s) ==
    [s EXCEPT !.file_start = 0, !.file_end = 0, !.from_date = EmptyStr,
              !.to_date = EmptyStr, !.frame_count = 0, !.folded = <<>>]

\* OutputWriter.saveToFile
Detec_saveToFile(img, s) ==
    LET w == IF s.frame_count > 0 /\ s.file_end > s.file_start
             THEN Append(s.written, OutFile(img, s, s.from_date, Slice11to17(s.to_date)))
             ELSE s.written
    IN  [s EXCEPT !.written = w, !.frame_count = 0, !.from_date = NoneDate,
                  !.to_date = NoneDate, !.folded = <<>>]

\* OutputWriter.setFileStartEnd
Detec_setFileStartEnd(img, s, start, end) ==
    IF start <= s.file_start
    THEN [s EXCEPT !.file_start = start]
    ELSE IF start <= s.file_end
    THEN IF end > s.file_end THEN [s EXCEPT !.file_end = end] ELSE s
    ELSE [Detec_saveToFile(img, s) EXCEPT !.file_start = start, !.file_end = end]

\* OutputWriter.setDate
Detec_setDate(s, date) ==
    [s EXCEPT !.from_date = IF ~Truthy(@) THEN date ELSE @, !.to_date = date]

\* OutputWriter.increaseFrameCount
Detec_increaseFrameCount(s) == [s EXCEPT !.frame_count = @ + 1]

\* carveInImage(offset, size, carve_string): size + len(carve_string) bytes are read
Detec_carveInImage(img, off, size, len_carve_string) ==
    IF len_carve_string = 0 THEN <<>>
    ELSE MatchesIn(img, off, size + len_carve_string, Detec_MatchLen)

\* getTicksTime
Detec_getTicksTime(raw) == DecodeSinceEpoch(raw, EPOCH_AS_TICKS_TIME_DAYS)

\* the body of "for hit in hits" of searchChunksOfData, for the hits left
RECURSIVE Detec_ForHits(_, _, _, _)
Detec_ForHits(img, s, off, hits) ==
    IF hits = <<>> THEN s
    ELSE
      LET frame_start == off + Head(hits)
          header      == HeaderAt(img, frame_start)
          have        == ReadLen(img, frame_start, detec_frame_header_length)
          date_from_ticks == Detec_getTicksTime(header.date)
      IN  IF ~date_from_ticks.ok
          THEN \* utcfromtimestamp raises: the run ends
               Raise(s, "getTicksTime")
          ELSE IF have < detec_frame_header_size + 4
          THEN \* struct.unpack('<I', ...) raises on a short size field
               Raise(s, "getIntFromBytes")
          ELSE
            LET frame_date == getDateTimeString(date_from_ticks)
                frame_end  == frame_start + detec_frame_header_length + header.size
                                + detec_frame_footer_length
                s1 == Detec_setFileStartEnd(img, s, frame_start, frame_end)
                s2 == Detec_setDate(s1, frame_date)
                s3 == NoteFrame(Detec_increaseFrameCount(s2), frame_start, frame_date)
            IN  Detec_ForHits(img, s3, off, Tail(hits))

\* one iteration of "while offset < total_size" of searchChunksOfData
Detec_Iteration(img, len_carve_string, s) ==
    LET s1 == IF s.offset >= log_offset_to_file
              THEN WriteCheckpoint(s)
              ELSE NoCheckpoint(s)
        hits == Detec_carveInImage(img, s.offset, detec_haystack_length, len_carve_string)
        s2 == Detec_ForHits(img, s1, s.offset, hits)
    IN  IF s2.pc = "crashed" THEN s2
        ELSE [s2 EXCEPT !.offset = s.offset + detec_haystack_length]

\* after the loop of searchChunksOfData: "Write out the last frame."
Detec_AfterLoop(img, s) == [Detec_saveToFile(img, s) EXCEPT !.pc = "done"]

-----------------------------------------------------------------------------
(* milestone_carve.py *)

milestone_header_length == 32

milestone_carve_string_length == 48

milestone_carve_haystack_length == 512

milestone_offset_skip == milestone_carve_haystack_length

milestone_full_haystack_length ==
    milestone_carve_haystack_length + milestone_carve_string_length

\* EPOCH_AS_FILETIME = 116444736000000000 = 134774 days of 100 ns units
EPOCH_AS_FILETIME_DAYS == 134774

\* bytes matched by carve_string, two dates, 16 bytes and two dates: with dates of
\* 8 bytes (header_date_length) these are the carve_string_length bytes
Milestone_MatchLen == milestone_carve_string_length

\* the locals of searchChunksOfData before the loop
Milestone_InitWriter(s) ==
    [s EXCEPT !.file_start = 0, !.file_end = 0, !.frame_count = 0,
              !.from_date = NullStr, !.to_date = NullStr, !.folded = <<>>]

\* searchBytes(size, offset)
Milestone_searchBytes(img, size, off) == MatchesIn(img, off, size, Milestone_MatchLen)

\* getFiletime
Milestone_getFiletime(raw) == DecodeSinceEpoch(raw, EPOCH_AS_FILETIME_DAYS)

\* saveToFile(start_offset, end_offset, count, start_date, end_date)
Milestone_saveToFile(img, s) ==
    [s EXCEPT !.written = Append(@, OutFile(img, s, s.from_date, s.to_date))]

\* the body of "for hit in hits" of searchChunksOfData, for the hits left
RECURSIVE Milestone_ForHits(_, _, _, _)
Milestone_ForHits(img, s, off, hits) ==
    IF hits = <<>> THEN s
    ELSE
      LET hit_offset == off + Head(hits)
          header     == HeaderAt(img, hit_offset)
          filetime   == Milestone_getFiletime(header.date)
      IN  IF ~filetime.ok
          THEN \* utcfromtimestamp raises: the run ends
               Raise(s, "getFiletime")
          ELSE
            LET blk_date == getDateTimeString(filetime)
                s1 == IF hit_offset > s.file_end
                      THEN LET f == IF s.frame_count > 0
                                    THEN [Milestone_saveToFile(img, s) EXCEPT
                                             !.frame_count = 0, !.folded = <<>>]
                                    ELSE s
                           IN  [f EXCEPT !.file_start = hit_offset,
                                         !.from_date = blk_date]
                      ELSE s
                s2 == [s1 EXCEPT
                         !.file_end = hit_offset + milestone_header_length + header.size,
                         !.to_date = Slice11to17(blk_date),
                         !.frame_count = @ + 1]
            IN  Milestone_ForHits(img, NoteFrame(s2, hit_offset, blk_date), off, Tail(hits))

\* the checkpoint of the counting scripts (milestone, avigilon, mirasys):
\* every log_offset_to_file + 1 iterations the cursor replaces the file's content
CounterCheckpoint(s) ==
    IF s.log_offset_counter + 1 > log_offset_to_file
    THEN [WriteCheckpoint(s) EXCEPT !.log_offset_counter = 0]
    ELSE [NoCheckpoint(s) EXCEPT !.log_offset_counter = @ + 1]

\* one iteration of "while offset < total_size" of searchChunksOfData
Milestone_Iteration(img, s) ==
    LET s1 == CounterCheckpoint(s)
        hits == Milestone_searchBytes(img, milestone_full_haystack_length, s.offset)
        s2 == Milestone_ForHits(img, s1, s.offset, hits)
    IN  IF s2.pc = "crashed" THEN s2
        ELSE [s2 EXCEPT !.offset = s.offset + milestone_offset_skip]

\* after the loop of searchChunksOfData
Milestone_AfterLoop(img, s) ==
    [(IF s.frame_count > 0 THEN Milestone_saveToFile(img, s) ELSE s) EXCEPT !.pc = "done"]

-----------------------------------------------------------------------------
(* avigilon_carve.py *)

avigilon_haystack_length == 1024

avigilon_haystack_length_extra == 32

\* len(file_signature): the four bytes avfs
avigilon_file_signature_length == 4

avigilon_file_signature_offset == 4

\* len(index_signature): the four bytes rcfc
avigilon_index_signature_length == 4

avigilon_index_signature_offset == 4

avigilon_index_at_modulo_bytes == 512

\* len(frame_signature): the four bytes datp
avigilon_frame_signature_length == 4

avigilon_frame_signature_offset == 4

avigilon_frame_header_length == 32

\* an optional integer, for logical_file_start = None
NoneInt == [set |-> FALSE, v |-> 0]

Some(n) == [set |-> TRUE, v |-> n]

\* the scan has not been sent to an index yet
NoIndexHit == [set |-> FALSE, hit |-> 0, index_start |-> 0, current_index |-> <<>>,
               logical_file_start |-> NoneInt, file_start |-> 0, file_end |-> 0,
               counted |-> <<>>]

\* OutputWriter.__init__
Avigilon_InitWriter(s) ==
    [s EXCEPT !.file_start = 0, !.file_end = 0, !.from_date = NoneDate,
              !.to_date = NoneDate, !.frame_count = 0, !.folded = <<>>]

\* a saveToFile that does not test frame_count: the fault that C6 excludes
Avigilon_saveToFile_AnyCount(img, s) ==
    LET w == IF s.file_end > s.file_start
             THEN Append(s.written, OutFile(img, s, s.from_date, s.to_date))
             ELSE s.written
    IN  [s EXCEPT !.written = w, !.frame_count = 0, !.from_date = NoneDate,
                  !.to_date = NoneDate, !.folded = <<>>]

\* OutputWriter.saveToFile
Avigilon_saveToFile(img, s) ==
    LET w == IF s.frame_count > 0 /\ s.file_end > s.file_start
             THEN Append(s.written, OutFile(img, s, s.from_date, s.to_date))
             ELSE s.written
    IN  [s EXCEPT !.written = w, !.frame_count = 0, !.from_date = NoneDate,
                  !.to_date = NoneDate, !.folded = <<>>]

\* OutputWriter.setFileStartEnd
Avigilon_setFileStartEnd(img, s, start, end) ==
    IF start <= s.file_start
    THEN [s EXCEPT !.file_start = start]
    ELSE IF start <= s.file_end
    THEN IF end > s.file_end THEN [s EXCEPT !.file_end = end] ELSE s
    ELSE [Avigilon_saveToFile(img, s) EXCEPT !.file_start = start, !.file_end = end]

\* OutputWriter.setDate
Avigilon_setDate(s, date) ==
    [s EXCEPT !.from_date = IF ~Truthy(@) THEN date ELSE @,
              !.to_date = Slice11to17(date)]

\* OutputWriter.increaseFrameCount
Avigilon_increaseFrameCount(s) == [s EXCEPT !.frame_count = @ + 1]

\* regexFindInBytes(haystack, index_carve_string), and when it finds nothing
\* regexFindInBytes(haystack, index_frame_carve_string): the offsets, relative to
\* off, where a match starts in the bytes read at off.  A hit h of the image is an
\* offset where pattern h.pat can match, h.len being the bytes of its shortest match
Avigilon_index_hits(img, off) ==
    LET stop == off + ReadLen(img, off, avigilon_haystack_length + avigilon_haystack_length_extra)
        of(pat) == {h.pos - off : h \in {g \in img.hits :
                        g.pat = pat /\ g.pos >= off /\ g.pos + g.len <= stop}}
    IN  IF of(1) # {} THEN SortedSeq(of(1)) ELSE SortedSeq(of(2))

\* getIndex(offset): the index block whose signature is at offset, or none
Avigilon_getIndex(img, off) ==
    LET b == {x \in img.blocks : x.pos = off}
    IN  IF b = {} THEN {}
        ELSE LET x == CHOOSE y \in b : TRUE
             IN  IF x.sig /\ ReadLen(img, off, x.length) >=
                        avigilon_index_signature_offset + avigilon_index_signature_length
                 THEN {x} ELSE {}

\* getApfsTime: divmod(value, NANOSECONDS) and utcfromtimestamp(s)
Avigilon_getApfsTime(raw) ==
    IF raw.d < MIN_DATETIME_DAY \/ raw.d > MAX_DATETIME_DAY
    THEN [ok |-> FALSE, day |-> 0, sod |-> 0, micro |-> 0]
    ELSE [ok |-> TRUE, day |-> raw.d, sod |-> raw.s, micro |-> raw.f \div 1000]

\* checkSignature(readFromImage(pos, 8), file_signature, file_signature_offset)
Avigilon_hasFileSignature(img, pos) ==
    /\ pos \in img.sigs
    /\ ReadLen(img, pos, avigilon_file_signature_offset + avigilon_file_signature_length)
         >= avigilon_file_signature_offset + avigilon_file_signature_length

\* isIndexSameAsFrame(index["size"], readFromImage(frame_offset, frame_header_length))
Avigilon_isIndexSameAsFrame(img, index_frame_size, frame_offset) ==
    /\ frame_offset >= 0
    /\ ReadLen(img, frame_offset, avigilon_frame_header_length)
         >= avigilon_frame_signature_offset + avigilon_frame_signature_length
    /\ \E f \in img.frames : f.pos = frame_offset /\ f.size = index_frame_size

\* a logical_file_start that takes the candidate of the entry closest to the
\* index without reading the file-start signature: the fault that C28 excludes
Avigilon_logicalFileStart_Unsigned(img, index_start, current_index, i, logical_file_start) ==
    Some(index_start - current_index[1].offset - current_index[1].size)

\* "for index in current_index" that computes logical_file_start, from entry i on
RECURSIVE Avigilon_logicalFileStart(_, _, _, _, _)
Avigilon_logicalFileStart(img, index_start, current_index, i, logical_file_start) ==
    IF i > Len(current_index) THEN logical_file_start
    ELSE
      LET potential_file_start == index_start - current_index[i].offset - current_index[i].size
          lfs == IF ~logical_file_start.set \/ logical_file_start.v = 0
                 THEN Some(potential_file_start)
                 ELSE logical_file_start
      IN  IF potential_file_start >= 0 /\ Avigilon_hasFileSignature(img, potential_file_start)
          THEN Some(potential_file_start)
          ELSE Avigilon_logicalFileStart(img, index_start, current_index, i + 1, lfs)

\* "for index in current_index" that verifies the frames, from entry i on.
\* x: [s, file_start, file_end], the writer and the two locals
RECURSIVE Avigilon_verifyFrames(_, _, _, _, _, _, _)
Avigilon_verifyFrames(img, current_index, i, logical_file_start, off, date_string, x) ==
    IF i > Len(current_index) THEN x
    ELSE
      LET frame_offset == logical_file_start + current_index[i].offset
      IN  IF Avigilon_isIndexSameAsFrame(img, current_index[i].size, frame_offset)
          THEN LET s1 == Avigilon_increaseFrameCount(Avigilon_setDate(x.s, date_string))
                   y  == [s |-> NoteFrame(s1, frame_offset, date_string),
                          file_start |-> MinOf(x.file_start, frame_offset),
                          file_end |-> off]
               IN  Avigilon_verifyFrames(img, current_index, i + 1, logical_file_start,
                                         off, date_string, y)
          ELSE x

Reverse(q) == [i \in 1..Len(q) |-> q[Len(q) + 1 - i]]

\* the branch "if len(index_hits) > 0" of searchChunksOfData
Avigilon_OnHit(img, s, hit) ==
    LET index_start == ((s.offset + hit) \div avigilon_index_at_modulo_bytes)
                          * avigilon_index_at_modulo_bytes
        found == Avigilon_getIndex(img, index_start)
        sent == [s EXCEPT !.index_hit = [NoIndexHit EXCEPT !.set = TRUE,
                                            !.hit = s.offset + hit,
                                            !.index_start = index_start,
                                            !.file_start = index_start,
                                            !.file_end = index_start]]
    IN  IF found = {}
        THEN \* getDateFromIndex(None): re.finditer raises TypeError
             Raise(sent, "getDateFromIndex")
        ELSE
          LET found_index == CHOOSE x \in found : TRUE
              index_date  == Avigilon_getApfsTime(found_index.date)
          IN  IF ~found_index.has_date \/ ~index_date.ok
              THEN \* getDateTimeString(None) or utcfromtimestamp raises
                   Raise(sent, "getDateTimeString")
              ELSE
                LET date_string == getDateTimeString(index_date)
                    off == index_start + ReadLen(img, index_start, found_index.length)
                    current_index == Reverse(found_index.entries)
                    x0 == [s |-> sent, file_start |-> index_start, file_end |-> index_start]
                    lfs == IF current_index = <<>> THEN NoneInt
                           ELSE Avigilon_logicalFileStart(img, index_start,
                                                          current_index, 1, NoneInt)
                    x1 == IF current_index = <<>> THEN x0
                          ELSE Avigilon_verifyFrames(img, current_index, 1, lfs.v,
                                                     off, date_string, x0)
                    s2 == Avigilon_setFileStartEnd(img, x1.s, x1.file_start, x1.file_end)
                IN  [s2 EXCEPT !.offset = off,
                               !.index_hit = [@ EXCEPT
                                   !.current_index = current_index,
                                   !.logical_file_start = lfs,
                                   !.file_start = x1.file_start,
                                   !.file_end = x1.file_end,
                                   !.counted = [i \in 1..(Len(x1.s.folded) - Len(s.folded))
                                                  |-> x1.s.folded[Len(s.folded) + i].pos]]]

\* an iteration that leaves the cursor where it is when nothing is found: the
\* fault that C12 excludes
Avigilon_Iteration_NoAdvance(img, s) ==
    LET s1 == CounterCheckpoint(s)
        index_hits == Avigilon_index_hits(img, s.offset)
    IN  IF Len(index_hits) > 0
        THEN Avigilon_OnHit(img, s1, index_hits[1])
        ELSE s1

\* one iteration of "while offset < total_size" of searchChunksOfData
Avigilon_Iteration(img, s) ==
    LET s1 == CounterCheckpoint(s)
        index_hits == Avigilon_index_hits(img, s.offset)
    IN  IF Len(index_hits) > 0
        THEN Avigilon_OnHit(img, s1, index_hits[1])
        ELSE [s1 EXCEPT !.offset = s.offset + avigilon_haystack_length]

\* after the loop of searchChunksOfData
Avigilon_AfterLoop(img, s) == [Avigilon_saveToFile(img, s) EXCEPT !.pc = "done"]

-----------------------------------------------------------------------------
(* mirasys_carve.py *)

mirasys_index_length == 4096

mirasys_index_frames_start == 14

mirasys_index_frame_length == 32

\* index_frame_size = (21, 25): the last byte of a record that is parsed
mirasys_index_frame_size_end == 25

\* len(index_frame_signature): the two bytes A6 4B
mirasys_index_frame_signature_length == 2

\* len(frame_signature): the four bytes 97 57 20 58
mirasys_frame_signature_length == 4

mirasys_frame_header_length == 35

\* frame_header_date = (10, 8): the date field ends at byte 18 of the header
mirasys_frame_header_date_end == 18

mirasys_footer_length == 20

mirasys_carve_string_length == 18

mirasys_carve_haystack_length == 4096

mirasys_offset_skip == mirasys_carve_haystack_length

mirasys_full_haystack_length ==
    mirasys_carve_haystack_length + mirasys_carve_string_length

\* EPOCH_DIFF = 504911232000000000 = 584388 days of 100 ns units
EPOCH_DIFF_DAYS == 584388

\* bytes matched by index_frame_carve_string: A6 4B, 3 bytes, the 8 date bytes
Mirasys_IndexMatchLen == 13

\* bytes matched by frame_carve_string: 97 57 20 58, 6 bytes, the 8 date bytes
Mirasys_FrameMatchLen == mirasys_carve_string_length

\* the locals of searchChunksOfData before the loop
Mirasys_InitWriter(s) ==
    [s EXCEPT !.file_start = 0, !.file_end = 0, !.frame_count = 0,
              !.from_date = NoneDate, !.to_date = NoneDate, !.folded = <<>>]

\* a decoder that subtracts EPOCH_AS_FILETIME only, as for a FILETIME field: the
\* fault that C40 excludes
Mirasys_getTicksTime_AsFiletime(raw) == DecodeSinceEpoch(raw, EPOCH_AS_FILETIME_DAYS)

\* getTicksTime: EPOCH_DIFF is subtracted, then EPOCH_AS_FILETIME
Mirasys_getTicksTime(raw) ==
    DecodeSinceEpoch([raw EXCEPT !.d = @ - EPOCH_DIFF_DAYS], EPOCH_AS_FILETIME_DAYS)

\* saveToFile(start_offset, end_offset, count, start_date, end_date); the name is
\* built from start_date, and "dvrfile_" + None raises TypeError
Mirasys_saveToFile(img, s) ==
    IF s.from_date.kind = "None" THEN Raise(s, "saveToFile")
    ELSE [s EXCEPT !.written = Append(@, OutFile(img, s, s.from_date, Slice11to17(s.to_date)))]

\* "if current_file_count > 0: saveToFile(...); current_file_count = 0"
Mirasys_flush(img, s) ==
    IF s.frame_count > 0
    THEN LET f == Mirasys_saveToFile(img, s)
         IN  IF f.pc = "crashed" THEN f
             ELSE [f EXCEPT !.frame_count = 0, !.folded = <<>>]
    ELSE s

\* searchBytes(offset, full_haystack_length, index_frame_carve_string)
Mirasys_index_frame_hits(img, off) ==
    LET stop == off + ReadLen(img, off, mirasys_full_haystack_length)
    IN  Finditer({h.pos - off : h \in {g \in img.hits :
                     g.pos >= off /\ g.pos + Mirasys_IndexMatchLen <= stop}},
                 Mirasys_IndexMatchLen)

\* getIndex(offset): "index" with the block for a block that starts with the index
\* signature, "zeros" for [] (only zero bytes, or nothing read), "none" for None
Mirasys_getIndex(img, off) ==
    LET b == {x \in img.blocks : x.pos = off}
    IN  IF ReadLen(img, off, mirasys_index_length) = 0 THEN [kind |-> "zeros", entries |-> <<>>]
        ELSE IF b = {} THEN [kind |-> "none", entries |-> <<>>]
        ELSE LET x == CHOOSE y \in b : TRUE
             IN  [kind |-> x.kind, entries |-> x.entries]

\* getFrameInfoFromIndex(found_index).  records: what the block holds at the
\* record positions, one after the other from index_frames_start, sig telling
\* whether the bytes there start with index_frame_signature (the bytes after the
\* last of them do not); have: the bytes read of the block.  The loop leaves at
\* the first position that lies outside the block or does not start with the
\* signature, and struct.unpack or utcfromtimestamp raises at the first position
\* before it whose record is cut short or carries a date datetime does not hold.
\* The result is the list of parsed records (raw: history, the 8 date bytes the
\* date of an entry was decoded from), ok telling that nothing was raised
Mirasys_getFrameInfoFromIndex(records, have) ==
    LET at(i) == mirasys_index_frames_start + (i - 1) * mirasys_index_frame_length
        avail(i) == MinOf(mirasys_index_frame_length, have - at(i))
        leaves(i) == \/ at(i) >= have
                     \/ i > Len(records)
                     \/ avail(i) < mirasys_index_frame_signature_length
                     \/ ~records[i].sig
        raises(i) == /\ ~leaves(i)
                     /\ \/ avail(i) < mirasys_index_frame_size_end
                        \/ ~Mirasys_getTicksTime(records[i].date).ok
        last == Min({i \in 1..(Len(records) + 1) : leaves(i) \/ raises(i)})
    IN  [ok |-> ~raises(last),
         list |-> [i \in 1..(last - 1) |->
                     [date |-> Mirasys_getTicksTime(records[i].date),
                      raw |-> records[i].date,
                      offset |-> records[i].offset, size |-> records[i].size]]]

\* isIndexSameAsFrame(index, offset): "yes", "no", or "crashed" when seek,
\* struct.unpack or utcfromtimestamp raises
Mirasys_isIndexSameAsFrame(img, index, off) ==
    IF off < 0 THEN "crashed"
    ELSE
      LET have == ReadLen(img, off, mirasys_frame_header_length)
          f == {x \in img.frames : x.pos = off}
      IN  IF have < mirasys_frame_signature_length \/ f = {} THEN "no"
          ELSE LET frame_date == Mirasys_getTicksTime((CHOOSE x \in f : TRUE).date)
               IN  IF have < mirasys_frame_header_date_end \/ ~frame_date.ok THEN "crashed"
                   ELSE IF index.date = frame_date THEN "yes" ELSE "no"

\* "while found_index" of searchChunksOfData.  x: [s, current_index, found_index]
RECURSIVE Mirasys_WhileFoundIndex(_, _)
Mirasys_WhileFoundIndex(img, x) ==
    IF x.found_index.kind # "index" \/ x.s.pc = "crashed" THEN x
    ELSE
      LET info == Mirasys_getFrameInfoFromIndex(x.found_index.entries,
                     ReadLen(img, x.s.offset, mirasys_index_length))
          current_index == x.current_index \o info.list
          off == x.s.offset + mirasys_index_length
          found_index == Mirasys_getIndex(img, off)
          s1 == [x.s EXCEPT !.offset = off]
      IN  IF ~info.ok
          THEN [x EXCEPT !.s = Raise(@, "getFrameInfoFromIndex")]
          ELSE IF found_index.kind = "index"
          THEN Mirasys_WhileFoundIndex(img,
                  [s |-> s1, current_index |-> current_index, found_index |-> found_index])
          ELSE IF current_index = <<>>
          THEN \* current_index[0] raises IndexError
               [x EXCEPT !.s = Raise(@, "current_index[0]")]
          ELSE
            LET same == Mirasys_isIndexSameAsFrame(img, current_index[1], off)
                new_start == off - current_index[1].offset
                s2 == IF same = "yes" /\ s1.file_start # new_start
                      THEN LET f == Mirasys_flush(img, s1)
                           IN  IF f.pc = "crashed" THEN f
                               ELSE [f EXCEPT !.file_start = new_start,
                                              !.from_date = NoneDate]
                      ELSE s1
            IN  IF same = "crashed" THEN [x EXCEPT !.s = Raise(@, "isIndexSameAsFrame")]
                ELSE [s |-> s2, current_index |-> current_index, found_index |-> found_index]

\* "for index in current_index" of searchChunksOfData, from entry i on
RECURSIVE Mirasys_ForIndex(_, _, _, _)
Mirasys_ForIndex(img, s, current_index, i) ==
    IF i > Len(current_index) \/ s.pc = "crashed" THEN s
    ELSE
      LET index == current_index[i]
          at    == s.file_start + index.offset
          same  == Mirasys_isIndexSameAsFrame(img, index, at)
      IN  IF same = "crashed" THEN Raise(s, "isIndexSameAsFrame")
          ELSE IF same = "yes"
          THEN LET frame_date == getDateTimeString(index.date)
                   s1 == [s EXCEPT !.from_date = IF ~Truthy(@) THEN frame_date ELSE @,
                                   !.to_date = frame_date,
                                   !.offset = at + index.size,
                                   !.file_end = at + index.size,
                                   !.frame_count = @ + 1,
                                   !.index_hit.counted = Append(@, at)]
               IN  Mirasys_ForIndex(img, NoteFrame(s1, at, frame_date), current_index, i + 1)
          ELSE LET f == Mirasys_flush(img, s)
               IN  IF f.pc = "crashed" THEN f
                   ELSE [f EXCEPT !.from_date = NoneDate, !.file_start = 0, !.file_end = 0]

\* the body of "for hit in hits" (orphan frames) of searchChunksOfData
RECURSIVE Mirasys_ForHits(_, _, _, _)
Mirasys_ForHits(img, s, off, hits) ==
    IF hits = <<>> \/ s.pc = "crashed" THEN s
    ELSE
      LET hit_offset == off + Head(hits)
          header     == HeaderAt(img, hit_offset)
          have       == ReadLen(img, hit_offset, mirasys_frame_header_length)
          ticks      == Mirasys_getTicksTime(header.date)
      IN  IF ~ticks.ok
          THEN Raise(s, "extractDatetimeStringFromFrameHeader")
          ELSE
            LET frame_date == getDateTimeString(ticks)
                s0 == IF hit_offset > s.file_end
                      THEN LET f == Mirasys_flush(img, s)
                           IN  IF f.pc = "crashed" THEN f
                               ELSE [f EXCEPT !.file_start = hit_offset,
                                              !.from_date = frame_date]
                      ELSE s
                \* extractSize(header): struct.unpack raises on a short header
                s1 == IF have < mirasys_frame_header_length
                      THEN Raise(s0, "extractSize")
                      ELSE s0
                s2 == [s1 EXCEPT
                         !.file_end = hit_offset + mirasys_frame_header_length
                                        + header.size + mirasys_footer_length,
                         !.to_date = frame_date,
                         !.frame_count = @ + 1]
            IN  IF s1.pc = "crashed" THEN s1
                ELSE Mirasys_ForHits(img, NoteFrame(s2, hit_offset, frame_date), off, Tail(hits))

\* a branch that parses the index where the pattern was found, without moving to
\* the start of the block: the fault that C30 excludes
Mirasys_OnHit_AtHit(img, s, hit) ==
    LET off == s.offset + hit
        sent == [s EXCEPT !.offset = off,
                          !.index_hit = [NoIndexHit EXCEPT !.set = TRUE,
                                            !.hit = s.offset + hit,
                                            !.index_start = off]]
        x == Mirasys_WhileFoundIndex(img,
                [s |-> sent, current_index |-> <<>>,
                 found_index |-> Mirasys_getIndex(img, off)])
        parsed == [x.s EXCEPT !.index_hit = [@ EXCEPT
                                  !.current_index = x.current_index,
                                  !.file_start = x.s.file_start,
                                  !.file_end = x.s.file_end]]
    IN  IF x.s.pc = "crashed" THEN x.s
        ELSE Mirasys_ForIndex(img, parsed, x.current_index, 1)

\* the branch "if len(index_frame_hits) > 0" of searchChunksOfData
Mirasys_OnHit(img, s, hit) ==
    LET off == ((s.offset + hit) \div mirasys_index_length) * mirasys_index_length
        sent == [s EXCEPT !.offset = off,
                          !.index_hit = [NoIndexHit EXCEPT !.set = TRUE,
                                            !.hit = s.offset + hit,
                                            !.index_start = off]]
        x == Mirasys_WhileFoundIndex(img,
                [s |-> sent, current_index |-> <<>>,
                 found_index |-> Mirasys_getIndex(img, off)])
        parsed == [x.s EXCEPT !.index_hit = [@ EXCEPT
                                  !.current_index = x.current_index,
                                  !.file_start = x.s.file_start,
                                  !.file_end = x.s.file_end]]
    IN  IF x.s.pc = "crashed" THEN x.s
        ELSE Mirasys_ForIndex(img, parsed, x.current_index, 1)

\* an iteration that moves the cursor by the bytes it read, not by offset_skip: the
\* fault that C31 excludes
Mirasys_Iteration_ByWindow(img, s) ==
    LET s1 == CounterCheckpoint(s)
        index_frame_hits == Mirasys_index_frame_hits(img, s.offset)
        s2 == IF Len(index_frame_hits) > 0
              THEN Mirasys_OnHit(img, s1, index_frame_hits[1])
              ELSE Mirasys_ForHits(img, s1, s.offset,
                      MatchesIn(img, s.offset, mirasys_full_haystack_length,
                                Mirasys_FrameMatchLen))
    IN  IF s2.pc = "crashed" THEN s2
        ELSE [s2 EXCEPT !.offset = @ + mirasys_full_haystack_length]

\* one iteration of "while offset < total_size" of searchChunksOfData
Mirasys_Iteration(img, s) ==
    LET s1 == CounterCheckpoint(s)
        index_frame_hits == Mirasys_index_frame_hits(img, s.offset)
        s2 == IF Len(index_frame_hits) > 0
              THEN Mirasys_OnHit(img, s1, index_frame_hits[1])
              ELSE Mirasys_ForHits(img, s1, s.offset,
                      MatchesIn(img, s.offset, mirasys_full_haystack_length,
                                Mirasys_FrameMatchLen))
    IN  IF s2.pc = "crashed" THEN s2
        ELSE [s2 EXCEPT !.offset = @ + mirasys_offset_skip]

\* after the loop of searchChunksOfData
Mirasys_AfterLoop(img, s) ==
    LET f == IF s.frame_count > 0 THEN Mirasys_saveToFile(img, s) ELSE s
    IN  IF f.pc = "crashed" THEN f ELSE [f EXCEPT !.pc = "done"]

-----------------------------------------------------------------------------
(* The images and arguments of the runs *)

\* raw dates: 2023-03-27 12:34:56.1234567 and 2023-03-28 01:02:03, as Microsoft
\* ticks (days since 0001-01-01), as FILETIME (days since 1601-01-01) and as
\* APFS time (days since 1970-01-01)
TicksA == [d |-> 738605, s |-> 45296, f |-> 1234567]

TicksB == [d |-> 738606, s |-> 3723, f |-> 0]

FiletimeA == [d |-> 154217, s |-> 45296, f |-> 1234567]

FiletimeB == [d |-> 154218, s |-> 3723, f |-> 0]

ApfsA == [d |-> 19443, s |-> 45296, f |-> 123456789]

ApfsB == [d |-> 19444, s |-> 3723, f |-> 0]

\* the images of size total with at most MaxFrames frame headers, at offsets of
\* cands, with size fields of sizes and date fields of dates
DirectImages(total, cands, sizes, dates) ==
    UNION { { [total |-> total,
               frames |-> {[pos |-> p, size |-> g[p][1], date |-> g[p][2]] : p \in P},
               hits |-> {}, blocks |-> {}, sigs |-> {}]
              : g \in [P -> sizes \X dates] }
            : P \in {Q \in SUBSET cands : Cardinality(Q) <= MaxFrames} }

\* Detec: a frame of size 12 is 60 bytes long, so the frames at 0, 60 and 120 can
\* be contiguous; 1024 is the first offset of the second window; a size of 5000
\* reaches past the end of the image; of a header at 2480 only 20 bytes are left
Detec_SmallImages ==
    DirectImages(2500, {0, 60, 120, 1024, 2200, 2480}, {12, 5000}, {TicksA, TicksB})

\* Detec: an image large enough for the cursor to reach log_offset_to_file, with
\* frames in the window read at offset 200704
Detec_LargeImages == DirectImages(202000, {200714, 200904}, {12}, {TicksA})

\* Milestone: a frame of size 32 is 64 bytes long; 512 is the first offset of the
\* second window
Milestone_Images ==
    DirectImages(1500, {0, 64, 128, 512, 1200}, {32, 5000}, {FiletimeA, FiletimeB})

\* Avigilon: recorded files.  A file has its index at index (a multiple of 512),
\* index.length bytes long, and before it the frames the entries point to, the
\* last one ending where the index starts.  The file of the index at 512 starts
\* at offset 0, and the frame its first entry points to ends where the file of
\* the index at 3584 starts
Avigilon_Sites ==
    { [index |-> 512, length |-> 100, date |-> ApfsA,
       entries |-> <<[offset |-> 32, size |-> 308], [offset |-> 340, size |-> 172]>>],
      [index |-> 1024, length |-> 300, date |-> ApfsA,
       entries |-> <<[offset |-> 32, size |-> 200], [offset |-> 232, size |-> 280]>>],
      [index |-> 1536, length |-> 100, date |-> ApfsB,
       entries |-> <<[offset |-> 0, size |-> 212]>>],
      [index |-> 2560, length |-> 200, date |-> ApfsB,
       entries |-> <<[offset |-> 32, size |-> 480]>>],
      [index |-> 3584, length |-> 100, date |-> ApfsA,
       entries |-> <<[offset |-> 0, size |-> 3412]>>] }

\* what is left of a recorded file: all of it; the file start overwritten; the
\* header of the frame closest to, or farthest from, the index overwritten; the
\* index pattern found off the block boundary, in a block that is no index; an
\* index without frame entries
Avigilon_Variants == {"intact", "nostart", "lastgone", "firstgone", "unaligned", "noentries"}

\* bytes of the shortest match of index_carve_string in the sites' indexes
Avigilon_HitLen == 60

Avigilon_Part(site, variant) ==
    LET n == Len(site.entries)
        start == site.index - site.entries[n].offset - site.entries[n].size
        gone == IF variant = "lastgone" THEN {n}
                ELSE IF variant = "firstgone" THEN {1} ELSE {}
    IN  [frames |-> {[pos |-> start + site.entries[i].offset,
                      size |-> site.entries[i].size, date |-> site.date]
                       : i \in (1..n) \ gone},
         sigs |-> IF variant = "nostart" THEN {} ELSE {start},
         hits |-> {[pos |-> IF variant = "unaligned" THEN site.index + 100 ELSE site.index,
                    len |-> Avigilon_HitLen, pat |-> 1]}
                  \cup (IF variant = "again"
                        THEN {[pos |-> site.index + 400, len |-> Avigilon_HitLen, pat |-> 1]}
                        ELSE {}),
         blocks |-> IF variant = "unaligned" THEN {}
                    ELSE {[pos |-> site.index, length |-> site.length, sig |-> TRUE,
                           has_date |-> TRUE, date |-> site.date, kind |-> "index",
                           entries |-> IF variant = "noentries" THEN <<>>
                                       ELSE IF variant = "reused"
                                       THEN <<[site.entries[1] EXCEPT !.date = TicksA]>>
                                       ELSE site.entries]}]

\* at most this many recorded files in an image of an index carver
MaxSites == 3

\* the images of size total holding at most MaxSites of sites, each in a state of
\* variants (parts[x, v]: what the site x in state v puts in the image), and the
\* frames of orphans
SiteImages(total, sites, variants, parts, orphans) ==
    UNION { { [total |-> total,
               frames |-> orphans \cup UNION {parts[x, g[x]].frames : x \in Q},
               hits |-> UNION {parts[x, g[x]].hits : x \in Q},
               blocks |-> UNION {parts[x, g[x]].blocks : x \in Q},
               sigs |-> UNION {parts[x, g[x]].sigs : x \in Q}]
              : g \in [Q -> variants] }
            : Q \in {R \in SUBSET sites : Cardinality(R) <= MaxSites} }

\* an index that ends before the end of its sector, and in the rest of the sector
\* bytes that index_carve_string matches again (at 400 bytes from the index)
Avigilon_MoreVariants == {"again"}

Avigilon_Images ==
    SiteImages(4000, Avigilon_Sites, Avigilon_Variants,
               [x \in Avigilon_Sites, v \in Avigilon_Variants |-> Avigilon_Part(x, v)], {})
      \cup SiteImages(4000, Avigilon_Sites, Avigilon_MoreVariants,
                      [x \in Avigilon_Sites, v \in Avigilon_MoreVariants |->
                          Avigilon_Part(x, v)], {})

\* Mirasys: recorded files.  A file has its index block at index (a multiple of
\* 4096) and after it the frames the entries point to; entries[1].offset is the
\* distance from the file start to the first frame
Mirasys_Sites ==
    { [index |-> 4096,
       entries |-> <<[sig |-> TRUE, date |-> TicksA, offset |-> 4126, size |-> 100],
                     [sig |-> TRUE, date |-> TicksB, offset |-> 4226, size |-> 120]>>],
      [index |-> 16384,
       entries |-> <<[sig |-> TRUE, date |-> TicksB, offset |-> 4126, size |-> 100]>>] }

\* what is left of a recorded file: all of it; the header of its first or its
\* last frame overwritten; the first record of the index overwritten, so that
\* the block parses to no frame entries; the index signature overwritten; the
\* date of the first frame header differing from the date of its index record in
\* the last digit (100 ns); the frames overwritten and the index holding one
\* record only, with the date TicksA that a frame of another file carries too
Mirasys_Variants ==
    {"intact", "firstgone", "lastgone", "noentries", "garbage", "lastdigit", "reused"}

\* the raw date v with another last decimal digit
OtherLastDigit(v) == [v EXCEPT !.f = ((@ \div 10) * 10) + (((@ % 10) + 3) % 10)]

Mirasys_Part(site, variant) ==
    LET n == IF variant = "reused" THEN 1 ELSE Len(site.entries)
        start == site.index + mirasys_index_length - site.entries[1].offset
        gone == IF variant = "lastgone" THEN {n}
                ELSE IF variant \in {"firstgone", "reused"} THEN {1} ELSE {}
    IN  [frames |-> {[pos |-> start + site.entries[i].offset,
                      size |-> site.entries[i].size - mirasys_frame_header_length
                                 - mirasys_footer_length,
                      date |-> IF variant = "lastdigit" /\ i = 1
                               THEN OtherLastDigit(site.entries[i].date)
                               ELSE site.entries[i].date]
                       : i \in (1..n) \ gone},
         sigs |-> {},
         hits |-> {[pos |-> site.index + mirasys_index_frames_start
                              + (i - 1) * mirasys_index_frame_length,
                    len |-> Mirasys_IndexMatchLen, pat |-> 1]
                     : i \in (1..n) \ (IF variant = "noentries" THEN {1} ELSE {})},
         blocks |-> IF variant = "garbage" THEN {}
                    ELSE {[pos |-> site.index, length |-> mirasys_index_length, sig |-> TRUE,
                           has_date |-> FALSE, date |-> TicksA, kind |-> "index",
                           entries |-> IF variant = "noentries" THEN <<>>
                                       ELSE IF variant = "reused"
                                       THEN <<[site.entries[1] EXCEPT !.date = TicksA]>>
                                       ELSE site.entries]}]

\* Mirasys: frames outside any index; a frame of size 45 is 100 bytes long, one of
\* size 200 at 4000 reaches into the block at 4096; of a header at 21980 only 20
\* bytes are left
Mirasys_Orphans ==
    { {[pos |-> p, size |-> g[p], date |-> TicksA] : p \in P}
        : P \in {Q \in SUBSET {0, 100, 4000, 21980} : Cardinality(Q) <= MaxFrames},
          g \in [{0, 100, 4000, 21980} -> {45, 200}] }

Mirasys_Images ==
    UNION { SiteImages(22000, Mirasys_Sites, Mirasys_Variants,
                       [x \in Mirasys_Sites, v \in Mirasys_Variants |-> Mirasys_Part(x, v)], o)
              : o \in Mirasys_Orphans }

Carvers == {"detec", "milestone", "avigilon", "mirasys"}

Images(c) ==
    CASE c = "detec" -> Detec_SmallImages \cup Detec_LargeImages
      [] c = "milestone" -> Milestone_Images
      [] c = "avigilon" -> Avigilon_Images
      [] c = "mirasys" -> Mirasys_Images

\* len(carve_string) of Detec depends on the timeframe argument: ".{5}" and three
\* bytes give 11, ".{4}", a range "[a-b]" and three bytes give 16
CarveLens(c) == IF c = "detec" THEN {11, 16} ELSE {0}

\* args.resume of the first run; 0 stands for no --resume
Resumes(c) ==
    CASE c = "detec" -> {0, 100, 1030}
      [] c = "milestone" -> {0, 64, 100}
      [] c = "avigilon" -> {0, 1100, 2570}
      [] c = "mirasys" -> {0, 4200}

\* the iterations of a run of a counting script that are followed
MaxIterations == 12

-----------------------------------------------------------------------------
(* The run *)

InitWriter(c, s) ==
    CASE c = "detec" -> Detec_InitWriter(s)
      [] c = "milestone" -> Milestone_InitWriter(s)
      [] c = "avigilon" -> Avigilon_InitWriter(s)
      [] c = "mirasys" -> Mirasys_InitWriter(s)

Iteration(c, img, len_carve_string, s) ==
    CASE c = "detec" -> Detec_Iteration(img, len_carve_string, s)
      [] c = "milestone" -> Milestone_Iteration(img, s)
      [] c = "avigilon" -> Avigilon_Iteration(img, s)
      [] c = "mirasys" -> Mirasys_Iteration(img, s)

AfterLoop(c, img, s) ==
    CASE c = "detec" -> Detec_AfterLoop(img, s)
      [] c = "milestone" -> Milestone_AfterLoop(img, s)
      [] c = "avigilon" -> Avigilon_AfterLoop(img, s)
      [] c = "mirasys" -> Mirasys_AfterLoop(img, s)

\* a start that ignores --resume and scans from offset 0: the fault that C8
\* excludes
StartState_FromZero(c, resume, r, files, lg) ==
    InitWriter(c, [run |-> r, pc |-> "scan", offset |-> 0, file_start |-> 0,
                   file_end |-> 0, frame_count |-> 0, from_date |-> NoneDate,
                   to_date |-> NoneDate, written |-> files, log |-> lg,
                   log_offset_counter |-> 0, verified |-> {}, folded |-> <<>>,
                   raised |-> "", last_cursor |-> -1,
                   cadence |-> [since |-> -1, gap |-> -1], index_hit |-> NoIndexHit])

\* the state of a process started with --resume resume on a directory that holds
\* the files files and the checkpoint file content lg
StartState(c, resume, r, files, lg) ==
    InitWriter(c, [run |-> r, pc |-> "scan", offset |-> resume, file_start |-> 0,
                   file_end |-> 0, frame_count |-> 0, from_date |-> NoneDate,
                   to_date |-> NoneDate, written |-> files, log |-> lg,
                   log_offset_counter |-> 0, verified |-> {}, folded |-> <<>>,
                   raised |-> "", last_cursor |-> -1,
                   cadence |-> [since |-> -1, gap |-> -1], index_hit |-> NoIndexHit])

Becomes(n) ==
    /\ run' = n.run
    /\ pc' = n.pc
    /\ offset' = n.offset
    /\ file_start' = n.file_start
    /\ file_end' = n.file_end
    /\ frame_count' = n.frame_count
    /\ from_date' = n.from_date
    /\ to_date' = n.to_date
    /\ written' = n.written
    /\ log' = n.log
    /\ log_offset_counter' = n.log_offset_counter
    /\ verified' = n.verified
    /\ folded' = n.folded
    /\ raised' = n.raised
    /\ last_cursor' = n.last_cursor
    /\ cadence' = n.cadence
    /\ index_hit' = n.index_hit
    /\ UNCHANGED <<carver, image, carve_len, resume_offset, call, returned>>

\* no function is called on its own while an image is scanned
NoCall == [fn |-> "none", data |-> <<>>, offset |-> 0, size |-> 0,
           carve_string |-> <<>>, value |-> [d |-> 0, s |-> 0, f |-> 0],
           block |-> [have |-> 0, records |-> <<>>], byte_array |-> <<>>,
           string |-> <<>>, escaped |-> 0]

NoResult == [done |-> FALSE, ok |-> TRUE, list |-> <<>>, uint |-> 0,
             date |-> [ok |-> TRUE, day |-> 0, sod |-> 0, micro |-> 0]]

\* the variables of the scan are those of the state n
Starts(n) ==
    /\ run = n.run
    /\ pc = n.pc
    /\ offset = n.offset
    /\ file_start = n.file_start
    /\ file_end = n.file_end
    /\ frame_count = n.frame_count
    /\ from_date = n.from_date
    /\ to_date = n.to_date
    /\ written = n.written
    /\ log = n.log
    /\ log_offset_counter = n.log_offset_counter
    /\ verified = n.verified
    /\ folded = n.folded
    /\ raised = n.raised
    /\ last_cursor = n.last_cursor
    /\ cadence = n.cadence
    /\ index_hit = n.index_hit

Init ==
    /\ carver \in Carvers
    /\ image \in Images(carver)
    /\ carve_len \in CarveLens(carver)
    /\ resume_offset \in Resumes(carver)
    /\ call = NoCall
    /\ returned = NoResult
    /\ Starts(StartState(carver, resume_offset, 1, <<>>, <<>>))

\* one iteration of the scan loop
Stride ==
    /\ pc = "scan"
    /\ offset < image.total
    /\ log_offset_counter < MaxIterations
    /\ Becomes([Iteration(carver, image, carve_len, State) EXCEPT !.last_cursor = offset])

\* the loop has ended: the statements after it
Finish ==
    /\ pc = "scan"
    /\ offset >= image.total
    /\ Becomes(AfterLoop(carver, image, State))

\* the process is killed between two iterations
Kill ==
    /\ pc = "scan"
    /\ run = 1
    /\ Becomes([State EXCEPT !.pc = "killed"])

\* a second run is started with --resume and the value of the checkpoint file
ResumeRun ==
    /\ pc = "killed"
    /\ log # <<>>
    /\ Becomes(StartState(carver, Last(log), 2, written, log))

Next == Stride \/ Finish \/ Kill \/ ResumeRun

Spec == Init /\ [][Next]_vars

\* a run that nothing interrupts: the loop is sequential code, so an iteration
\* that can be taken is taken, and so are the statements after the loop
ScanNext == Stride \/ Finish

\* the image holds no occurrence of a scan pattern
NoOccurrence(img) == img.frames = {} /\ img.hits = {}

\* the uninterrupted runs on the images that hold no occurrence of a pattern
NoOccurrenceInit == Init /\ NoOccurrence(image)

NoOccurrenceSpec ==
    NoOccurrenceInit /\ [][ScanNext]_vars /\ WF_vars(Stride) /\ WF_vars(Finish)

\* the cursor of avigilon_carve.py at the start of the iteration that writes the
\* first checkpoint, iteration log_offset_to_file + 1, when the first iteration
\* found the index at 512 (100 bytes) and the iterations after it found nothing
Avigilon_FirstCheckpoint ==
    512 + 100 + (log_offset_to_file - 1) * avigilon_haystack_length

\* the sector that cursor lies in
Avigilon_LateSector ==
    (Avigilon_FirstCheckpoint \div avigilon_index_at_modulo_bytes)
        * avigilon_index_at_modulo_bytes

\* Avigilon: images large enough for the checkpoint to be written.  Both hold the
\* index at 512, without frame entries.  The second holds, in the sector of the
\* cursor above, an index of 80 bytes whose date is outside the timeframe, so
\* that the pattern does not match at it, and 200 bytes from the start of the
\* sector, after the cursor, bytes that index_carve_string matches
Avigilon_LongImages ==
    LET first == [pos |-> 512, length |-> 100, sig |-> TRUE, has_date |-> TRUE,
                  date |-> ApfsA, kind |-> "index", entries |-> <<>>]
        late  == [pos |-> Avigilon_LateSector, length |-> 80, sig |-> TRUE,
                  has_date |-> TRUE, date |-> ApfsB, kind |-> "index", entries |-> <<>>]
        total == Avigilon_LateSector + 1512
    IN  { [total |-> total, frames |-> {}, sigs |-> {},
           hits |-> {[pos |-> 512, len |-> Avigilon_HitLen, pat |-> 1]},
           blocks |-> {first}],
          [total |-> total, frames |-> {}, sigs |-> {},
           hits |-> {[pos |-> 512, len |-> Avigilon_HitLen, pat |-> 1],
                     [pos |-> Avigilon_LateSector + 200, len |-> Avigilon_HitLen,
                      pat |-> 1]},
           blocks |-> {first, late}] }

\* the uninterrupted runs of avigilon_carve.py on those images, from offset 0
LongScanInit ==
    /\ carver = "avigilon"
    /\ image \in Avigilon_LongImages
    /\ carve_len = 0
    /\ resume_offset = 0
    /\ call = NoCall
    /\ returned = NoResult
    /\ Starts(StartState(carver, resume_offset, 1, <<>>, <<>>))

\* one iteration of the scan loop, every iteration of the run being followed
LongStride ==
    /\ pc = "scan"
    /\ offset < image.total
    /\ Becomes([Iteration(carver, image, carve_len, State) EXCEPT !.last_cursor = offset])

LongScanNext == LongStride \/ Finish

LongScanSpec == LongScanInit /\ [][LongScanNext]_vars

-----------------------------------------------------------------------------
(* Properties of the runs *)

\* the files written by run r, as indexes of written
Files(r) == {i \in 1..Len(written) : written[i].run = r}

\* the offsets of the frames counted into the file f
FramesOf(f) == {x.pos : x \in SeqToSet(f.frames)}

\* what the name and the content of a file show
Shown(f) == [from |-> f.from, to |-> f.to, count |-> f.count, start |-> f.start,
             end |-> f.end, len |-> f.len]

\* C1: the files of a run are written in non-decreasing order of start_offset and
\* no two of them overlap: a file written earlier ends where, or before, a file
\* written later starts
C1_OrderedDisjoint ==
    \A i, j \in Files(run) :
        i < j => /\ written[i].start <= written[j].start
                 /\ written[i].end <= written[j].start

\* C2: the frame_count of a written file is the number of distinct verified
\* frames that lie in [start_offset, end_offset): no frame is counted twice and
\* none is counted toward another file
C2_CountIsFramesInside ==
    \A i \in Files(run) :
        written[i].count =
            Cardinality({p \in verified : written[i].start <= p /\ p < written[i].end})

\* where the frame f of a direct-frame carver ends, by the size its header declares
FrameEnd(c, f) ==
    IF c = "detec"
    THEN f.pos + detec_frame_header_length + f.size + detec_frame_footer_length
    ELSE f.pos + milestone_header_length + f.size

\* the maximal runs of the frames q (in order of offset): a frame whose offset is
\* at most the running end extends the run, a frame beyond it starts the next
RECURSIVE MaximalRuns(_, _, _)
MaximalRuns(c, q, runs) ==
    IF q = <<>> THEN runs
    ELSE LET f == Head(q)
             n == Len(runs)
         IN  IF n > 0 /\ f.pos <= runs[n].end
             THEN MaximalRuns(c, Tail(q),
                     [runs EXCEPT ![n].end = MaxOf(@, FrameEnd(c, f)),
                                  ![n].count = @ + 1])
             ELSE MaximalRuns(c, Tail(q),
                     Append(runs, [start |-> f.pos, end |-> FrameEnd(c, f), count |-> 1]))

\* the frames of img in order of offset
FramesInOrder(img) ==
    LET q == SortedSeq({f.pos : f \in img.frames})
    IN  [i \in 1..Len(q) |-> HeaderAt(img, q[i])]

\* C3: a complete scan of a direct-frame carver writes one file per maximal run
\* of frames, each from the first frame of the run to the running end, counting
\* the frames of the run
C3_OneFilePerRun ==
    (pc = "done" /\ run = 1 /\ resume_offset = 0 /\ carver \in {"detec", "milestone"})
        => [i \in 1..Len(written) |->
               [start |-> written[i].start, end |-> written[i].end,
                count |-> written[i].count]]
           = MaximalRuns(carver, FramesInOrder(image), <<>>)

\* C4: when the scan has completed, every frame that was verified lies inside
\* some file the run has written: the last extent is not lost
C4_EveryFrameInAFile ==
    pc = "done" =>
        \A p \in verified :
            \E i \in Files(run) : written[i].start <= p /\ p < written[i].end

\* C5: a written file holds the bytes [start_offset, end_offset) of the image:
\* 0 <= start_offset < end_offset <= total_size and its length is
\* end_offset - start_offset
C5_ContentIsExtent ==
    \A i \in 1..Len(written) :
        /\ 0 <= written[i].start
        /\ written[i].start < written[i].end
        /\ written[i].end <= image.total
        /\ written[i].len = written[i].end - written[i].start

\* C6: no file is written for an extent whose frame_count is 0 when it is flushed
C6_NoEmptyFile == \A i \in 1..Len(written) : written[i].count > 0

\* C6, its case: an Avigilon scan has ended with an extent set but frame_count 0
\* at the final flush, and no file was written for it
C6_Witness ==
    /\ carver = "avigilon"
    /\ pc = "done"
    /\ file_end > file_start
    /\ verified # {}
    /\ written = <<>>

\* C7: the name of a file carries the timestamp of the first frame counted into
\* it and the time of day of the last one; it never carries the placeholder
\* 'null' and never a date of a frame that is not counted into it
C7_NameDates ==
    \A i \in 1..Len(written) :
        LET f == written[i]
        IN  /\ Len(f.frames) > 0
            /\ f.from # NullStr
            /\ f.from = f.frames[1].date
            /\ f.to = Slice11to17(Last(f.frames).date)

\* the scan of carver c on img from the state s to its end: the iterations of
\* "while offset < total_size", then the statements after the loop
RECURSIVE RunFinal(_, _, _, _)
RunFinal(c, img, len_carve_string, s) ==
    IF s.pc # "scan" \/ s.log_offset_counter >= MaxIterations THEN s
    ELSE IF s.offset >= img.total THEN AfterLoop(c, img, s)
    ELSE RunFinal(c, img, len_carve_string, Iteration(c, img, len_carve_string, s))

\* the address space [n, total_size) of img: nothing below n can be read
Restricted(img, n) ==
    [total |-> img.total,
     frames |-> {x \in img.frames : x.pos >= n},
     hits |-> {x \in img.hits : x.pos >= n},
     blocks |-> {x \in img.blocks : x.pos >= n},
     sigs |-> {x \in img.sigs : x >= n}]

\* what the files q show, in the order they were written
ShownFiles(q) == [i \in 1..Len(q) |-> Shown(q[i])]

\* the run was started with --resume N, 0 < N < total_size, and has ended with
\* the files an unresumed scan of the address space [N, total_size) writes
SameAsRestrictedScan ==
    LET other == RunFinal(carver, Restricted(image, resume_offset), carve_len,
                          StartState(carver, resume_offset, 1, <<>>, <<>>))
    IN  /\ pc = other.pc
        /\ ShownFiles(written) = ShownFiles(other.written)

\* C8 as stated: for every carver, a scan resumed at N writes the same extents
\* as an unresumed scan that cannot read any byte below N
C8_ResumeIsRestrictedScan ==
    (pc = "done" /\ run = 1 /\ 0 < resume_offset /\ resume_offset < image.total)
        => SameAsRestrictedScan

\* C8, amended: for the direct-frame carvers (Detec, Milestone), a scan resumed
\* at N starts at cursor N and writes the same extents as an unresumed scan that
\* cannot read any byte below N
C8_DirectResumeIsRestrictedScan ==
    (/\ pc \in {"done", "crashed"}
     /\ run = 1
     /\ carver \in {"detec", "milestone"}
     /\ 0 < resume_offset /\ resume_offset < image.total)
        => SameAsRestrictedScan

\* C8, its case: a resumed scan of a direct-frame carver has ended and written
\* a file, on an image that holds frames below and above the resume offset
C8_Witness ==
    /\ pc = "done"
    /\ run = 1
    /\ carver \in {"detec", "milestone"}
    /\ 0 < resume_offset
    /\ \E f \in image.frames : f.pos < resume_offset
    /\ \E f \in image.frames : f.pos >= resume_offset
    /\ written # <<>>

\* C9: when a run is killed and a second run is resumed from the last
\* checkpoint, no frame counted into a file of the first run is counted into a
\* file of the second run
C9_NoFrameInBothRuns ==
    \A i \in Files(1), j \in Files(2) :
        FramesOf(written[i]) \cap FramesOf(written[j]) = {}

\* C10: a hit whose surrounding bytes fail to parse or verify (no index signature
\* at the aligned block, an index block without frame entries, a truncated index
\* record) never ends the run with an exception
C10_ParseFailureNeverAborts ==
    raised \notin {"getDateFromIndex", "current_index[0]", "getFrameInfoFromIndex"}

\* bytes of a frame header as the carver c reads it
HeaderLength(c) ==
    CASE c = "detec" -> detec_frame_header_length
      [] c = "milestone" -> milestone_header_length
      [] c = "avigilon" -> avigilon_frame_header_length
      [] c = "mirasys" -> mirasys_frame_header_length

\* C11: a hit so close to the end of the image that the header read there is
\* shorter than the header length is an unverifiable frame: it is not counted and
\* it does not end the run with an exception
C11_ShortHeaderIsSkipped ==
    /\ raised \notin {"getIntFromBytes", "extractSize"}
    /\ \A p \in verified :
          ReadLen(image, p, HeaderLength(carver)) = HeaderLength(carver)

\* C12: on an image without any occurrence of a scan pattern the scan
\* terminates, the cursor having reached total_size, and has written no file
C12_NoPatternTerminates ==
    <>(pc = "done" /\ offset >= image.total /\ written = <<>>)

\* C12, its case: the scan of an image without occurrences has ended
C12_Witness ==
    /\ NoOccurrence(image)
    /\ pc = "done"
    /\ offset >= image.total
    /\ written = <<>>

\* C13: after a completed scan of an image without any occurrence of a scan
\* pattern the checkpoint file is absent or holds exactly total_size
C13_CheckpointAfterEmptyScan ==
    (pc = "done" /\ run = 1 /\ NoOccurrence(image))
        => (log = <<>> \/ log = <<image.total>>)

\* C14: when the scan is interrupted between two iterations, the checkpoint file
\* holds the cursor of the last iteration completed before the interruption
C14_CheckpointIsLastStride ==
    (pc = "killed" /\ last_cursor >= 0) => log = <<last_cursor>>

\* C15: the checkpoint is written at a fixed cadence: from one write to the next
\* the same number of loop iterations passes, set by log_offset_to_file and not
\* by the value of the cursor
C15_FixedCadence ==
    cadence.gap = -1 \/ cadence.gap \in {log_offset_to_file, log_offset_to_file + 1}

\* C16: after a checkpoint write the checkpoint file holds exactly one value,
\* the cursor of the iteration that wrote it, and nothing of earlier writes; and
\* a run started without --resume starts its cursor at 0
C16_CheckpointOverwritten ==
    /\ Len(log) <= 1
    /\ cadence.since = 0 => log = <<last_cursor>>
    /\ (run = 1 /\ resume_offset = 0 /\ last_cursor = -1) => offset = 0

\* C16, its case: a second checkpoint write has replaced the value of the first
C16_Witness ==
    /\ cadence.since = 0
    /\ cadence.gap >= 1
    /\ log = <<last_cursor>>

\* bytes the cursor of carver c advances when a window holds no hit
StrideLength(c) ==
    CASE c = "detec" -> detec_haystack_length
      [] c = "milestone" -> milestone_offset_skip
      [] c = "avigilon" -> avigilon_haystack_length
      [] c = "mirasys" -> mirasys_offset_skip

\* bytes carver c asks for when it reads a window
WindowLength(c, len_carve_string) ==
    CASE c = "detec" -> detec_haystack_length + len_carve_string
      [] c = "milestone" -> milestone_full_haystack_length
      [] c = "avigilon" -> avigilon_haystack_length + avigilon_haystack_length_extra
      [] c = "mirasys" -> mirasys_full_haystack_length

\* the occurrences of the scan patterns of carver c in img: where each starts
\* and how many bytes it takes
Occurrences(c, img) ==
    {[pos |-> h.pos, len |-> h.len] : h \in img.hits}
      \cup (CASE c = "detec" -> {[pos |-> f.pos, len |-> Detec_MatchLen] : f \in img.frames}
              [] c = "milestone" -> {[pos |-> f.pos, len |-> Milestone_MatchLen] : f \in img.frames}
              [] c = "mirasys" -> {[pos |-> f.pos, len |-> Mirasys_FrameMatchLen] : f \in img.frames}
              [] c = "avigilon" -> {})

\* C17: an occurrence of a pattern that starts in the stride of the window at
\* the cursor lies, whole, in the bytes read for that window
C17_OccurrenceInsideWindow ==
    (pc = "scan" /\ offset < image.total) =>
        \A o \in Occurrences(carver, image) :
            (offset <= o.pos /\ o.pos < offset + StrideLength(carver))
                => o.pos + o.len
                     <= offset + ReadLen(image, offset, WindowLength(carver, carve_len))

-----------------------------------------------------------------------------
(* The scanners and the timestamp decoders, each called on its own with     *)
(* arguments given byte by byte                                              *)

\* the byte values the data and the patterns are made of
ByteValues == {"A", "B"}

\* longest data and longest pattern of a call
MaxData == 4

MaxPattern == 2

\* the byte strings of at most n bytes
BytesUpTo(n) == UNION {[1..k -> ByteValues] : k \in 0..n}

\* filehandle.seek(offset); filehandle.read(size) on the bytes of an image
readFromImage(data, off, size) ==
    IF off >= Len(data) \/ size <= 0 THEN <<>>
    ELSE SubSeq(data, off + 1, MinOf(off + size, Len(data)))

\* the offsets of data where its bytes equal the bytes of carve_string
LiteralOccurrences(data, carve_string) ==
    {i \in 0..(Len(data) - Len(carve_string)) :
        SubSeq(data, i + 1, i + Len(carve_string)) = carve_string}

\* [match.start() for match in re.finditer(carve_string, data, flags=re.DOTALL)]
\* for a pattern of literal bytes: a match is searched from the end of the match
\* before it, and the empty pattern matches at every position, the end included
re_finditer(carve_string, data) ==
    IF carve_string = <<>> THEN SortedSeq(0..Len(data))
    ELSE Finditer(LiteralOccurrences(data, carve_string), Len(carve_string))

\* avigilon_carve.py regexFindInBytes(data, carve_string)
Avigilon_regexFindInBytes(data, carve_string) ==
    IF carve_string # <<>> THEN re_finditer(carve_string, data) ELSE <<>>

\* detec_carve.py carveInImage(offset, size, carve_string)
Detec_carveInImage_bytes(data, off, size, carve_string) ==
    IF carve_string = <<>> THEN <<>>
    ELSE re_finditer(carve_string, readFromImage(data, off, size + Len(carve_string)))

\* mirasys_carve.py searchBytes(offset, size, carve_string)
Mirasys_searchBytes(data, off, size, carve_string) ==
    re_finditer(carve_string, readFromImage(data, off, size))

\* milestone_carve.py searchBytes(size, offset), carve_string being a global
Milestone_searchBytes_bytes(data, size, off, carve_string) ==
    re_finditer(carve_string, readFromImage(data, off, size))

\* the functions that search the bytes of the image for a pattern
Scanners == {"avigilon.regexFindInBytes", "detec.carveInImage",
             "mirasys.searchBytes", "milestone.searchBytes"}

\* the functions that decode the 8 bytes of a timestamp field
Decoders == {"detec.getTicksTime", "milestone.getFiletime",
             "avigilon.getApfsTime", "mirasys.getTicksTime"}

\* 64-bit field values in units of 100 ns: 0, the two instants of TicksA and
\* FiletimeA, 3155378975999999999 and 3155378976000000000 (the last ticks of the
\* year 9999 and the first of the year 10000), 2^63 and 2^64 - 1
Values100ns ==
    {[d |-> 0, s |-> 0, f |-> 0], TicksA, FiletimeA,
     [d |-> 3652058, s |-> 86399, f |-> 9999999],
     [d |-> 3652059, s |-> 0, f |-> 0],
     [d |-> 10675199, s |-> 10085, f |-> 4775808],
     [d |-> 21350398, s |-> 20170, f |-> 9551615]}

\* 64-bit field values in nanoseconds: 0, the instant of ApfsA, 2^63 and 2^64 - 1
ValuesNs ==
    {[d |-> 0, s |-> 0, f |-> 0], ApfsA,
     [d |-> 106751, s |-> 85636, f |-> 854775808],
     [d |-> 213503, s |-> 84873, f |-> 709551615]}

\* a | b of two integers that are not negative
RECURSIVE BitOr(_, _)
BitOr(a, b) ==
    IF a = 0 THEN b
    ELSE IF b = 0 THEN a
    ELSE MaxOf(a % 2, b % 2) + 2 * BitOr(a \div 2, b \div 2)

\* a decoder that does not stop at the byte whose high bit is clear: the fault
\* that C33 excludes
RECURSIVE Avigilon_getLeb128FromBytes_NoBreak(_, _, _)
Avigilon_getLeb128FromBytes_NoBreak(byte_array, i, uint) ==
    IF i >= Len(byte_array) THEN uint
    ELSE LET byte == byte_array[i + 1]
             u == BitOr(uint, (byte % 128) * 2^(7 * i))
         IN  Avigilon_getLeb128FromBytes_NoBreak(byte_array, i + 1, u)

\* getLeb128FromBytes(byte_array), from the byte at index i on, uint being the
\* value gathered from the bytes before it
RECURSIVE Avigilon_getLeb128FromBytes(_, _, _)
Avigilon_getLeb128FromBytes(byte_array, i, uint) ==
    IF i >= Len(byte_array) THEN uint
    ELSE LET byte == byte_array[i + 1]
             sign_bit == byte \div 128
             u == BitOr(uint, (byte % 128) * 2^(7 * i))
         IN  IF sign_bit # 1 THEN u
             ELSE Avigilon_getLeb128FromBytes(byte_array, i + 1, u)

\* the functions that decode a number of variable length
NumberDecoders == {"avigilon.getLeb128FromBytes"}

\* longest byte sequence handed to a number decoder
MaxLebBytes == 3

\* the bytes of those sequences: the least and the greatest value with the high
\* bit clear and with the high bit set, and 1 and 129
LebByteValues == {0, 1, 127, 128, 129, 255}

\* the functions that parse an index block
Parsers == {"mirasys.getFrameInfoFromIndex"}

\* at most this many records in an index block that is not full
MaxRecords == 3

\* what a record position of an index block holds: a record with a date of 2023,
\* a record whose date field is 0, bytes that do not start with the signature
IndexRecords ==
    {[sig |-> TRUE, date |-> TicksA, offset |-> 4126, size |-> 100],
     [sig |-> TRUE, date |-> [d |-> 0, s |-> 0, f |-> 0], offset |-> 4226, size |-> 120],
     [sig |-> FALSE, date |-> TicksB, offset |-> 4326, size |-> 140]}

\* the record positions of a block of have bytes: the last may hold less than
\* index_frame_length bytes
RecordPositions(have) ==
    IF have <= mirasys_index_frames_start THEN 0
    ELSE (have - mirasys_index_frames_start + mirasys_index_frame_length - 1)
            \div mirasys_index_frame_length

\* the blocks the parser is called on: a block of index_length bytes, and blocks
\* cut short by the end of the image (in the third record after 22, 2 and 1
\* bytes), holding up to MaxRecords records; and the block of index_length bytes
\* that is filled with records
IndexBlocks ==
    {[have |-> h, records |-> r] :
        h \in {mirasys_index_length, 100, 80, 79},
        r \in UNION {[1..k -> IndexRecords] : k \in 0..MaxRecords}}
    \cup {[have |-> mirasys_index_length,
           records |-> [i \in 1..RecordPositions(mirasys_index_length) |->
                          [sig |-> TRUE, date |-> TicksA,
                           offset |-> 4126 + 100 * (i - 1), size |-> 100]]]}

\* the functions that turn the timeframe argument into a pattern
PatternBuilders == {"avigilon.getBytesFromString"}

\* the characters "\" and "x", and the character of the hexadecimal digit n
Backslash == 92

LetterX == 120

HexDigit(n) == IF n < 10 THEN 48 + n ELSE 55 + n

\* bytes.fromhex of the two characters hi and lo
fromhex(hi, lo) ==
    LET digit(c) == IF c >= 97 THEN c - 87 ELSE IF c >= 65 THEN c - 55 ELSE c - 48
    IN  16 * digit(hi) + digit(lo)

\* the timeframe string "\xHH" of the byte v, character by character
EscapeOf(v) == <<Backslash, LetterX, HexDigit(v \div 16), HexDigit(v % 16)>>

\* getBytesFromString(string), from the character at index i on: a backslash
\* with at least three characters after it becomes the byte its two hexadecimal
\* digits name, any other character its own byte
RECURSIVE getBytesFromString(_, _)
getBytesFromString(string, i) ==
    IF i >= Len(string) THEN <<>>
    ELSE IF string[i + 1] = Backslash /\ i + 4 <= Len(string)
    THEN <<fromhex(string[i + 3], string[i + 4])>> \o getBytesFromString(string, i + 4)
    ELSE <<string[i + 1]>> \o getBytesFromString(string, i + 1)

\* the bytes that re does not compile as a pattern of their own: ( ) * + ? [ \
re_error_bytes == {40, 41, 42, 43, 63, 91, 92}

\* re.finditer(carve_string, data, flags=re.DOTALL) for a carve_string of one
\* byte and data without a newline: "." matches every byte, "^", "$" and "|"
\* match the empty string at the start, at the end and everywhere, the bytes of
\* re_error_bytes raise re.error, every other byte matches itself
re_finditer_byte(carve_string, data) ==
    LET b == carve_string[1]
        at == CASE b = 46 -> 0..(Len(data) - 1)
                [] b = 94 -> {0}
                [] b = 36 -> {Len(data)}
                [] b = 124 -> 0..Len(data)
                [] OTHER -> {i \in 0..(Len(data) - 1) : data[i + 1] = b}
    IN  IF b \in re_error_bytes THEN [ok |-> FALSE, list |-> <<>>]
        ELSE [ok |-> TRUE, list |-> SortedSeq(at)]

\* the bytes escaped in a timeframe: 00, "$", "(", ".", "A", "[", "\", "^", "|", FF
EscapedBytes == {0, 36, 40, 46, 65, 91, 92, 94, 124, 255}

\* the bytes of the data the pattern of an escaped byte is used on
PatternData == UNION {[1..k -> {46, 65, 91}] : k \in 0..MaxPattern}

\* the calls made: every scanner on every data and pattern within the bounds,
\* every decoder on the values above, the index parser on the blocks above
Calls ==
    {[NoCall EXCEPT !.fn = fn, !.data = data, !.offset = off, !.size = size,
                    !.carve_string = p] :
        fn \in Scanners \ {"avigilon.regexFindInBytes"},
        data \in BytesUpTo(MaxData), off \in {0, 1}, size \in {MaxPattern, MaxData},
        p \in BytesUpTo(MaxPattern)}
    \cup {[NoCall EXCEPT !.fn = "avigilon.regexFindInBytes", !.data = data,
                         !.carve_string = p] :
            data \in BytesUpTo(MaxData), p \in BytesUpTo(MaxPattern)}
    \cup {[NoCall EXCEPT !.fn = fn, !.value = v] :
            fn \in Decoders \ {"avigilon.getApfsTime"}, v \in Values100ns}
    \cup {[NoCall EXCEPT !.fn = "avigilon.getApfsTime", !.value = v] : v \in ValuesNs}
    \cup {[NoCall EXCEPT !.fn = "mirasys.getFrameInfoFromIndex", !.block = b] :
            b \in IndexBlocks}
    \cup {[NoCall EXCEPT !.fn = "avigilon.getLeb128FromBytes", !.byte_array = b] :
            b \in UNION {[1..k -> LebByteValues] : k \in 0..MaxLebBytes}}
    \cup {[NoCall EXCEPT !.fn = "avigilon.getBytesFromString", !.string = EscapeOf(v),
                         !.escaped = v, !.byte_array = d] :
            v \in EscapedBytes, d \in PatternData}

\* the call c returns: a scanner its list of offsets, a decoder its date, or the
\* error utcfromtimestamp raised (date.ok is FALSE), a parser its list of records,
\* or the error raised in it (ok is FALSE)
Returns(c) ==
    [done |-> TRUE,
     ok   |-> CASE c.fn = "mirasys.getFrameInfoFromIndex" ->
                       Mirasys_getFrameInfoFromIndex(c.block.records, c.block.have).ok
                [] c.fn = "avigilon.getBytesFromString" ->
                       re_finditer_byte(getBytesFromString(c.string, 0), c.byte_array).ok
                [] OTHER -> TRUE,
     uint |-> CASE c.fn = "avigilon.getLeb128FromBytes" ->
                       Avigilon_getLeb128FromBytes(c.byte_array, 0, 0)
                [] OTHER -> 0,
     list |-> CASE c.fn = "mirasys.getFrameInfoFromIndex" ->
                       Mirasys_getFrameInfoFromIndex(c.block.records, c.block.have).list
                [] c.fn = "avigilon.getBytesFromString" ->
                       re_finditer_byte(getBytesFromString(c.string, 0), c.byte_array).list
                [] c.fn = "avigilon.regexFindInBytes" ->
                       Avigilon_regexFindInBytes(c.data, c.carve_string)
                [] c.fn = "detec.carveInImage" ->
                       Detec_carveInImage_bytes(c.data, c.offset, c.size, c.carve_string)
                [] c.fn = "mirasys.searchBytes" ->
                       Mirasys_searchBytes(c.data, c.offset, c.size, c.carve_string)
                [] c.fn = "milestone.searchBytes" ->
                       Milestone_searchBytes_bytes(c.data, c.size, c.offset, c.carve_string)
                [] OTHER -> <<>>,
     date |-> CASE c.fn = "detec.getTicksTime" -> Detec_getTicksTime(c.value)
                [] c.fn = "milestone.getFiletime" -> Milestone_getFiletime(c.value)
                [] c.fn = "avigilon.getApfsTime" -> Avigilon_getApfsTime(c.value)
                [] c.fn = "mirasys.getTicksTime" -> Mirasys_getTicksTime(c.value)
                [] OTHER -> NoResult.date]

\* no image is scanned while a function is called on its own
NoImage == [total |-> 0, frames |-> {}, hits |-> {}, blocks |-> {}, sigs |-> {}]

CallInit ==
    /\ carver = "detec"
    /\ image = NoImage
    /\ carve_len = 0
    /\ resume_offset = 0
    /\ call \in Calls
    /\ returned = NoResult
    /\ Starts(StartState(carver, resume_offset, 1, <<>>, <<>>))

\* a scanner is called
Scan ==
    /\ call.fn \in Scanners
    /\ ~returned.done
    /\ returned' = Returns(call)
    /\ UNCHANGED <<carver, image, carve_len, resume_offset, run, pc, offset,
                   file_start, file_end, frame_count, from_date, to_date, written,
                   log, log_offset_counter, verified, folded, raised, last_cursor,
                   cadence, index_hit, call>>

\* a timestamp decoder is called
Decode ==
    /\ call.fn \in Decoders
    /\ ~returned.done
    /\ returned' = Returns(call)
    /\ UNCHANGED <<carver, image, carve_len, resume_offset, run, pc, offset,
                   file_start, file_end, frame_count, from_date, to_date, written,
                   log, log_offset_counter, verified, folded, raised, last_cursor,
                   cadence, index_hit, call>>

\* an index parser is called
Parse ==
    /\ call.fn \in Parsers
    /\ ~returned.done
    /\ returned' = Returns(call)
    /\ UNCHANGED <<carver, image, carve_len, resume_offset, run, pc, offset,
                   file_start, file_end, frame_count, from_date, to_date, written,
                   log, log_offset_counter, verified, folded, raised, last_cursor,
                   cadence, index_hit, call>>

\* a number of variable length is decoded
DecodeNumber ==
    /\ call.fn \in NumberDecoders
    /\ ~returned.done
    /\ returned' = Returns(call)
    /\ UNCHANGED <<carver, image, carve_len, resume_offset, run, pc, offset,
                   file_start, file_end, frame_count, from_date, to_date, written,
                   log, log_offset_counter, verified, folded, raised, last_cursor,
                   cadence, index_hit, call>>

\* the pattern of a timeframe is built and used
UsePattern ==
    /\ call.fn \in PatternBuilders
    /\ ~returned.done
    /\ returned' = Returns(call)
    /\ UNCHANGED <<carver, image, carve_len, resume_offset, run, pc, offset,
                   file_start, file_end, frame_count, from_date, to_date, written,
                   log, log_offset_counter, verified, folded, raised, last_cursor,
                   cadence, index_hit, call>>

CallNext == Scan \/ Decode \/ Parse \/ DecodeNumber \/ UsePattern

CallSpec == CallInit /\ [][CallNext]_vars

-----------------------------------------------------------------------------
(* Properties of the calls *)

\* the bytes the call c searches
WindowOf(c) ==
    CASE c.fn = "avigilon.regexFindInBytes" -> c.data
      [] c.fn = "detec.carveInImage" ->
             readFromImage(c.data, c.offset, c.size + Len(c.carve_string))
      [] OTHER -> readFromImage(c.data, c.offset, c.size)

\* C18: for a pattern made of literal bytes only, the scanner returns every
\* offset of the window at which the bytes of the window equal the pattern,
\* occurrences that overlap one another included
C18_EveryLiteralOccurrence ==
    (returned.done /\ call.fn \in Scanners /\ call.carve_string # <<>>) =>
        SeqToSet(returned.list) = LiteralOccurrences(WindowOf(call), call.carve_string)

\* C19: in the scanner of every carver an empty pattern yields the empty list of
\* matches for every window and raises no error: it does not match at every
\* position
C19_EmptyPatternNoMatches ==
    (returned.done /\ call.fn \in Scanners /\ call.carve_string = <<>>) =>
        returned.list = <<>>

\* C20: for every 64-bit value of the raw field, values before the Unix epoch and
\* values far beyond any calendar year included, each timestamp decoder
\* (FILETIME, ticks, APFS) returns a date and never raises an error
C20_DecoderNeverRaises ==
    (returned.done /\ call.fn \in Decoders) => returned.date.ok

\* the days of the epoch the decoder fn subtracts from the days of the raw value
EpochDays(fn) ==
    CASE fn = "detec.getTicksTime" -> EPOCH_AS_TICKS_TIME_DAYS
      [] fn = "milestone.getFiletime" -> EPOCH_AS_FILETIME_DAYS
      [] fn = "mirasys.getTicksTime" -> EPOCH_DIFF_DAYS + EPOCH_AS_FILETIME_DAYS
      [] OTHER -> 0

\* the raw units of a format in one microsecond: 10 units of 100 ns, 1000 ns
UnitsPerMicrosecond(fn) == IF fn = "avigilon.getApfsTime" THEN 1000 ELSE 10

\* the declared precision of a format in its raw units: 100 ns is one unit of
\* FILETIME and of ticks, 1 microsecond is 1000 units of APFS time
DeclaredPrecision(fn) == IF fn = "avigilon.getApfsTime" THEN 1000 ELSE 1

\* the encoding of the decoded instant dt in the raw layout of the format of fn
EncodeInstant(fn, dt) ==
    [d |-> dt.day + EpochDays(fn), s |-> dt.sod, f |-> dt.micro * UnitsPerMicrosecond(fn)]

\* C21: round trip: for every instant t expressed in the raw unit of the format,
\* decoding the encoding of t gives t again within the declared precision: no
\* loss at 100 ns resolution for FILETIME and Microsoft ticks, none at 1
\* microsecond resolution for APFS
C21_RoundTrip ==
    (returned.done /\ call.fn \in Decoders /\ returned.date.ok) =>
        LET back == EncodeInstant(call.fn, returned.date)
            p == DeclaredPrecision(call.fn)
        IN  /\ back.d = call.value.d
            /\ back.s = call.value.s
            /\ back.f \div p = call.value.f \div p

-----------------------------------------------------------------------------
(* Properties of the extent the frames are stitched into *)

\* C22: when no frame is held (at program start, or after a flush), the next hit
\* at offset o with length l makes the current extent exactly start = o and
\* end = o + l, for every o >= 0, o = 0 included.  folded holds the frames
\* counted since frame_count was last 0: one frame in it is that next hit
C22_FirstHitSetsExtent ==
    (carver \in {"detec", "milestone"} /\ pc = "scan" /\ frame_count = 1 /\ Len(folded) = 1) =>
        /\ file_start = folded[1].pos
        /\ file_end = FrameEnd(carver, HeaderAt(image, folded[1].pos))

\* the hits of the window read at off, for the scripts that handle every hit as
\* the header of a frame
FrameHits(c, img, off, len_carve_string) ==
    CASE c = "detec" -> Detec_carveInImage(img, off, detec_haystack_length, len_carve_string)
      [] c = "milestone" -> Milestone_searchBytes(img, milestone_full_haystack_length, off)
      [] OTHER -> <<>>

\* the iteration at the cursor handles one hit and no more: the frame found by a
\* frame scanner, or the index an index scanner is sent to
OneFrameHit == Len(FrameHits(carver, image, offset, carve_len)) = 1

OneIndexHit == carver = "avigilon" /\ Len(Avigilon_index_hits(image, offset)) > 0

\* the frame the one hit of the iteration is the header of
TheFrame == HeaderAt(image, offset + FrameHits(carver, image, offset, carve_len)[1])

\* C23: while frames are accumulated, a hit at offset o with end e and
\* o <= current_end writes no file and sets start to min(start, o) and end to
\* max(end, e): the end of the extent never decreases, and it is raised to e also
\* when the hit lies at or before the current start
C23_ContiguousHitExtends ==
    [][(pc = "scan" /\ pc' = "scan" /\ frame_count > 0) =>
          /\ (OneFrameHit /\ TheFrame.pos <= file_end) =>
                /\ written' = written
                /\ file_start' = MinOf(file_start, TheFrame.pos)
                /\ file_end' = MaxOf(file_end, FrameEnd(carver, TheFrame))
          /\ (OneIndexHit /\ index_hit'.file_start <= file_end) =>
                /\ written' = written
                /\ file_start' = MinOf(file_start, index_hit'.file_start)
                /\ file_end' = MaxOf(file_end, index_hit'.file_end)]_vars

\* one file more is written, for the extent and with the frames held before the
\* iteration
FlushedBefore ==
    /\ Len(written') = Len(written) + 1
    /\ Last(written').start = file_start
    /\ Last(written').end = file_end
    /\ Last(written').count = frame_count
    /\ Last(written').frames = folded

\* C24: while frames are accumulated, a hit at offset o > current_end causes
\* exactly one file to be written for the current extent, with only the frames
\* folded in before this hit, before the new hit is folded in; afterwards the
\* current extent is start = o, end = o + l and frame_count counts exactly the
\* frames of the new hit
C24_BreakFlushesThenRestarts ==
    [][(pc = "scan" /\ pc' = "scan" /\ frame_count > 0) =>
          /\ (OneFrameHit /\ TheFrame.pos > file_end) =>
                /\ FlushedBefore
                /\ file_start' = TheFrame.pos
                /\ file_end' = FrameEnd(carver, TheFrame)
                /\ frame_count' = 1
          /\ (OneIndexHit /\ index_hit'.file_start > file_end) =>
                /\ FlushedBefore
                /\ file_start' = index_hit'.file_start
                /\ file_end' = index_hit'.file_end
                /\ frame_count' = Len(index_hit'.counted)]_vars

\* C25: in every reachable state of the writer, frame_count > 0 implies
\* end_offset > start_offset, also after a first frame found at image offset 0
C25_CountedExtentNotEmpty ==
    (pc # "crashed" /\ frame_count > 0) => file_end > file_start

\* the instant of the date string a is not after that of b
DateLeq(a, b) == a.ymd < b.ymd \/ (a.ymd = b.ymd /\ a.hms <= b.hms)

\* start_time <= end_time for the frames q of an extent whose start date is from:
\* the end date is the date of the frame folded in last
StartNotAfterEnd(from, q) ==
    (from.kind = "date" /\ q # <<>>) => DateLeq(from, Last(q).date)

\* C26: for every extent, in every reachable state and at flush time,
\* start_time <= end_time, whatever the timestamps of the frames folded into it,
\* frames whose timestamps decrease with increasing offset included
C26_StartTimeNotAfterEndTime ==
    /\ (pc # "crashed" /\ frame_count > 0) => StartNotAfterEnd(from_date, folded)
    /\ \A i \in 1..Len(written) : StartNotAfterEnd(written[i].from, written[i].frames)

-----------------------------------------------------------------------------
(* Properties of the index branch *)

\* the offset where the frame of the index entry e is expected: Avigilon counts
\* from logical_file_start, Mirasys from current_file_start
PredictedOffset(c, ih, e) ==
    (IF c = "avigilon" THEN ih.logical_file_start.v ELSE ih.file_start) + e.offset

\* the header at the predicted offset of the entry e carries the frame signature
\* and the value of e: its declared size (Avigilon), its timestamp (Mirasys)
EntryVerified(c, img, ih, e) ==
    \E f \in img.frames :
        /\ f.pos = PredictedOffset(c, ih, e)
        /\ IF c = "avigilon" THEN f.size = e.size ELSE f.date = e.raw

\* C27: frame_count is incremented for an index entry only if the header read at
\* the predicted frame offset carries the frame signature and its declared size
\* (Avigilon) or timestamp (Mirasys) equals the value of the index entry; at the
\* first entry that fails this check no later entry of the same index is
\* verified or counted
C27_OnlyVerifiedEntriesCounted ==
    (carver \in {"avigilon", "mirasys"} /\ index_hit.set) =>
        \A i \in 1..Len(index_hit.counted) :
            /\ i <= Len(index_hit.current_index)
            /\ index_hit.counted[i] =
                  PredictedOffset(carver, index_hit, index_hit.current_index[i])
            /\ \A j \in 1..i :
                  EntryVerified(carver, image, index_hit, index_hit.current_index[j])

\* the candidate file start computed from entry i of the index of the hit ih,
\* entry 1 being the one closest to the index
Candidate(ih, i) ==
    ih.index_start - ih.current_index[i].offset - ih.current_index[i].size

\* the entries of the hit ih whose candidate carries the file-start signature
SignedCandidates(img, ih) ==
    {i \in 1..Len(ih.current_index) : Candidate(ih, i) \in img.sigs}

\* C28: overwrite recovery, acceptance: walking the index entries from the one
\* closest to the index to the earliest, with candidate = index_offset -
\* entry.offset - entry.size, the logical file start is the first candidate whose
\* position carries the file-start signature; when the candidate of the closest
\* entry carries it, that one is chosen even if those of farther entries do not
C28_FirstSignedCandidateAccepted ==
    (carver = "avigilon" /\ index_hit.set /\ SignedCandidates(image, index_hit) # {}) =>
        index_hit.logical_file_start =
            Some(Candidate(index_hit, Min(SignedCandidates(image, index_hit))))

\* an index whose closest entry has a signed candidate while a farther one has
\* none, and an index whose first signed candidate is not that of its closest
\* entry, have been parsed
C28_Witness ==
    /\ carver = "avigilon" /\ index_hit.set /\ pc = "scan"
    /\ Len(index_hit.current_index) = 2
    /\ SignedCandidates(image, index_hit) = {1}
    /\ index_hit.logical_file_start = Some(Candidate(index_hit, 1))
    /\ Len(index_hit.counted) = 2

C28_WitnessFarther ==
    /\ carver = "avigilon" /\ index_hit.set
    /\ SignedCandidates(image, index_hit) = {2}
    /\ index_hit.logical_file_start = Some(Candidate(index_hit, 2))

\* C29: overwrite recovery, fallback: when no candidate position carries the
\* file-start signature, the logical file start is the candidate computed from
\* the entry closest to the index, for every value of that candidate, 0 included
C29_FallbackIsClosestCandidate ==
    (carver = "avigilon" /\ index_hit.set /\ index_hit.current_index # <<>>
       /\ SignedCandidates(image, index_hit) = {}) =>
        index_hit.logical_file_start = Some(Candidate(index_hit, 1))

\* the alignment modulus of the format: index_at_modulo_bytes of Avigilon,
\* index_length of Mirasys
AlignmentModulus(c) ==
    IF c = "avigilon" THEN avigilon_index_at_modulo_bytes ELSE mirasys_index_length

\* C30: on a hit at absolute position p the index parser is invoked at
\* a = (p div m) * m, m being the alignment modulus of the format (512 for
\* Avigilon, 4096 for Mirasys): a is a multiple of m with a <= p < a + m
C30_IndexParsedAtAlignedOffset ==
    (carver \in {"avigilon", "mirasys"} /\ index_hit.set) =>
        LET m == AlignmentModulus(carver)
            p == index_hit.hit
            a == index_hit.index_start
        IN  /\ \E h \in image.hits : h.pos = p
            /\ a = (p \div m) * m
            /\ a % m = 0
            /\ a <= p /\ p < a + m

\* an index has been parsed for a hit that does not lie on a block boundary
C30_Witness ==
    /\ carver \in {"avigilon", "mirasys"} /\ index_hit.set
    /\ index_hit.hit % AlignmentModulus(carver) # 0
    /\ index_hit.index_start < index_hit.hit
    /\ index_hit.current_index # <<>>

-----------------------------------------------------------------------------
(* Properties of the progress of the scan *)

\* no occurrence of a scan pattern of carver c lies, whole, in the bytes read for
\* the window at off
NoMatchInWindow(c, img, off, len_carve_string) ==
    \A o \in Occurrences(c, img) :
        ~(off <= o.pos
            /\ o.pos + o.len <= off + ReadLen(img, off, WindowLength(c, len_carve_string)))

\* C31: in an iteration of the scan loop in which no pattern matches in the
\* window, the cursor increases by exactly the haystack stride (1024 for Avigilon
\* and Detec, 512 for Milestone, 4096 for Mirasys), and the extent, the frame
\* count, the dates and the written files are left as they were
C31_NoHitAdvancesByStride ==
    [][(pc = "scan" /\ offset < image.total /\ pc' # "killed"
          /\ NoMatchInWindow(carver, image, offset, carve_len)) =>
            /\ pc' = "scan"
            /\ offset' = offset + StrideLength(carver)
            /\ UNCHANGED <<file_start, file_end, frame_count, from_date, to_date,
                           written>>]_vars

\* an iteration whose window held no match has been made while frames were held
C31_Witness ==
    /\ pc = "scan" /\ last_cursor >= 0
    /\ NoMatchInWindow(carver, image, last_cursor, carve_len)
    /\ offset = last_cursor + StrideLength(carver)
    /\ frame_count > 0
    /\ carver = "mirasys"

-----------------------------------------------------------------------------
(* Properties of the parsers and decoders of the index *)

\* the records of the longest run of consecutive record positions of block b, from
\* the first on, whose bytes start with the frame-entry signature
LeadingRun(b) ==
    LET signed(i) ==
            /\ i <= Len(b.records)
            /\ mirasys_index_frames_start + (i - 1) * mirasys_index_frame_length
                  + mirasys_index_frame_signature_length <= b.have
            /\ b.records[i].sig
        n == Max({k \in 0..Len(b.records) : \A i \in 1..k : signed(i)})
    IN  [i \in 1..n |-> b.records[i]]

\* C32: for every index block the parser returns exactly the records of the
\* longest run of consecutive records, from the first record position on, that
\* each begin with the frame-entry signature, in block order, and the walk ends
\* without error for every block content, a block filled with matching records
\* included
C32_ParserReturnsLeadingRun ==
    (returned.done /\ call.fn \in Parsers) =>
        /\ returned.ok
        /\ [i \in 1..Len(returned.list) |->
               [offset |-> returned.list[i].offset, size |-> returned.list[i].size]]
             = [i \in 1..Len(LeadingRun(call.block)) |->
                  [offset |-> LeadingRun(call.block)[i].offset,
                   size |-> LeadingRun(call.block)[i].size]]

\* the index of the first byte of b whose high bit is clear, or the last index
\* when every byte has the high bit set (indices from 0; b is not empty)
LastLebIndex(b) ==
    IF \E i \in 1..Len(b) : b[i] < 128
    THEN Min({i \in 1..Len(b) : b[i] < 128}) - 1
    ELSE Len(b) - 1

\* the sum over i = 0..k of (b[i] mod 128) * 128^i
RECURSIVE LebSum(_, _)
LebSum(b, k) ==
    IF k < 0 THEN 0
    ELSE (b[k + 1] % 128) * 128^k + LebSum(b, k - 1)

\* C33: for every byte sequence b the variable-length decoder returns the sum
\* over i = 0..k of (b[i] mod 128) * 128^i, k being the index of the first byte
\* with the high bit clear (or the last index when every byte has the high bit
\* set); the bytes after index k do not affect the result, and the empty
\* sequence decodes to 0
C33_Leb128IsSumOfGroups ==
    (returned.done /\ call.fn \in NumberDecoders) =>
        returned.uint = IF call.byte_array = <<>> THEN 0
                        ELSE LebSum(call.byte_array, LastLebIndex(call.byte_array))

\* a sequence has been decoded in which bytes follow the byte that ends the
\* number, after more than one group
C33_Witness ==
    /\ returned.done /\ call.fn \in NumberDecoders
    /\ Len(call.byte_array) = 3
    /\ LastLebIndex(call.byte_array) = 1
    /\ call.byte_array[3] # 0
    /\ returned.uint > 128

\* C34: in every carver, for every image content and start offset, the cursor is
\* strictly greater at the end of each iteration of the scan loop than at its
\* start, also after a hit was relocated to the aligned block boundary and the
\* index consumed, so that the scan loop terminates
C34_CursorStrictlyIncreases ==
    [][(pc = "scan" /\ offset < image.total /\ pc' = "scan") => offset' > offset]_vars

\* C35: at every point of a scan the value in the checkpoint file, when there is
\* one, is <= the current cursor and < total_size, and successive checkpoint
\* values do not decrease, so that resuming from the checkpoint never skips bytes
\* that were not scanned yet
C35_CheckpointBehindCursor ==
    [][/\ (pc' = "scan" /\ log' # <<>>) =>
              Last(log') <= offset' /\ Last(log') < image.total
       /\ (log # <<>> /\ log' # <<>>) => Last(log') >= Last(log)]_vars

\* C36: in the Detec and Milestone carvers an occurrence of the pattern is
\* handed to the Reconstructor at most once, and the occurrences are handed to
\* it in the order of their offsets: the frames folded into the open extent
\* have strictly increasing offsets, also where the windows of two successive
\* iterations overlap.
C36_EachOccurrenceHandedOnce ==
    (carver \in {"detec", "milestone"}) =>
        \A i, j \in 1..Len(folded) : i < j => folded[i].pos < folded[j].pos

\* the starts of the index blocks that "while found_index" parsed from block a on
Mirasys_ParsedBlocks(img, a) ==
    {p \in {x.pos : x \in img.blocks} :
        /\ p >= a /\ (p - a) % mirasys_index_length = 0
        /\ \A k \in 0..((p - a) \div mirasys_index_length) :
              Mirasys_getIndex(img, a + k * mirasys_index_length).kind = "index"}

\* byte b lies in the stride of the window read at cursor off, in an index block
\* that the hit h parsed, or in a frame that the hit h verified
Mirasys_ScannedOrConsumed(img, off, h, b) ==
    \/ off <= b /\ b < off + mirasys_offset_skip
    \/ \E p \in Mirasys_ParsedBlocks(img, h.index_start) :
          p <= b /\ b < p + mirasys_index_length
    \/ \E i \in 1..Len(h.counted) :
          h.counted[i] <= b /\ b < h.counted[i] + h.current_index[i].size

\* the offsets where the stride, a parsed block or a verified frame ends: a byte
\* between two cursors is left out only if one of these is
Mirasys_Ends(img, off, h) ==
    {off + mirasys_offset_skip}
      \cup {p + mirasys_index_length : p \in Mirasys_ParsedBlocks(img, h.index_start)}
      \cup {h.counted[i] + h.current_index[i].size : i \in 1..Len(h.counted)}

\* C37: in the Mirasys scan, an iteration that handles an index hit does not move
\* the cursor over a byte of the image that lies neither in the stride of the
\* window just scanned, nor in an index block it parsed, nor in a frame it
\* verified.
C37_NoByteJumpedOver ==
    [][(/\ carver = "mirasys" /\ pc = "scan" /\ offset < image.total /\ pc' = "scan"
        /\ Len(Mirasys_index_frame_hits(image, offset)) > 0) =>
          \A b \in Mirasys_Ends(image, offset, index_hit') :
              (offset <= b /\ b < offset' /\ b < image.total) =>
                  Mirasys_ScannedOrConsumed(image, offset, index_hit', b)]_vars

\* the file start that the index parsed from block a on gives: the position
\* directly after its blocks minus the offset of its first entry
Mirasys_StartOfIndex(img, h) ==
    Max(Mirasys_ParsedBlocks(img, h.index_start)) + mirasys_index_length
      - h.current_index[1].offset

\* C38: in the Mirasys scan, every frame that an index hit verifies and counts
\* lies at the offset of its entry relative to the file start derived from that
\* same index, never relative to a file start left over from before the hit.
C38_VerifiedRelativeToOwnIndex ==
    (carver = "mirasys" /\ index_hit.set) =>
        \A i \in 1..Len(index_hit.counted) :
            index_hit.counted[i] =
                Mirasys_StartOfIndex(image, index_hit) + index_hit.current_index[i].offset

\* C39: the pattern built from the hex escape of a byte v in the timeframe
\* string is built and used without an error, and matches the data exactly at
\* the offsets where the data holds the byte v, also when v is the code of a
\* character that means something in a pattern.
C39_EscapeMatchesItsByteOnly ==
    (returned.done /\ call.fn \in PatternBuilders) =>
        /\ returned.ok
        /\ SeqToSet(returned.list) =
              {i \in 0..(Len(call.byte_array) - 1) : call.byte_array[i + 1] = call.escaped}

\* C40: for every raw value the tick decoder of Mirasys, which subtracts
\* EPOCH_DIFF and then EPOCH_AS_FILETIME, and the tick decoder of Detec, which
\* subtracts EPOCH_AS_TICKS_TIME once, give the same result: the same seconds
\* and the same remainder, or both no date.
C40_TickDecodersAgree ==
    (returned.done /\ call.fn \in {"mirasys.getTicksTime", "detec.getTicksTime"}) =>
        /\ returned.date = Mirasys_getTicksTime(call.value)
        /\ returned.date = Detec_getTicksTime(call.value)

\* the Mirasys decoder has returned the date of a tick value of 2023
C40_Witness ==
    /\ returned.done /\ call.fn = "mirasys.getTicksTime" /\ call.value = TicksA
    /\ returned.date.ok
    /\ returned.date.day = TicksA.d - EPOCH_AS_TICKS_TIME_DAYS
    /\ returned.date.sod = TicksA.s

=============================================================================
